---- MODULE Spec2Model ----
(***************************************************************************)
(* A model of src-tauri/src/commands/slash_commands.rs: the slash command  *)
(* store (list / get / save / delete) over a file system.                  *)
(*                                                                         *)
(* A Rust String is a sequence of one-character strings, so that split,    *)
(* replace, contains, lines and join are computed as the code computes     *)
(* them.  An Option<T> is a sequence of length 0 (None) or 1 (Some).       *)
(* A path is the sequence of its components (std::path::Components): an    *)
(* absolute path starts with the component RootDir, the empty path is      *)
(* << >>.                                                                  *)
(***************************************************************************)
EXTENDS Integers, Sequences, FiniteSets, TLC

VARIABLES fs, env, last, ops, race

vars == <<fs, env, last, ops, race>>

(***************************************************************************)
(* Bounds of the model.                                                    *)
(***************************************************************************)
\* The number of operations (list, get, save, delete) of one behaviour.
MaxOps == 1

(***************************************************************************)
(* Option<T>.                                                              *)
(***************************************************************************)
None == << >>

Some(x) == <<x>>

IsSome(o) == Len(o) = 1

Unwrap(o) == o[1]

(***************************************************************************)
(* String literals of the source.                                          *)
(***************************************************************************)
NL == "\n"

CR == "\r"

DELIM == <<"-","-","-">>

S_md == <<"m","d">>

S_user == <<"u","s","e","r">>

S_project == <<"p","r","o","j","e","c","t">>

S_default == <<"d","e","f","a","u","l","t">>

S_project_dash == <<"p","r","o","j","e","c","t","-">>

S_dot_claude == <<".","c","l","a","u","d","e">>

S_commands == <<"c","o","m","m","a","n","d","s">>

S_ARGUMENTS == <<"$","A","R","G","U","M","E","N","T","S">>

\* The character U+0060 (grave accent), named so because the parser takes a
\* grave accent, even inside a string, for the start of a quotation.
BACKTICK == "U+0060"

S_bang_tick == <<"!", BACKTICK>>

S_description_key == <<"d","e","s","c","r","i","p","t","i","o","n">>

S_allowed_tools_key == <<"a","l","l","o","w","e","d","-","t","o","o","l","s">>

(***************************************************************************)
(* str: starts_with, contains, replace, split, join, lines.                *)
(***************************************************************************)
StartsWith(s, p) == Len(s) >= Len(p) /\ SubSeq(s, 1, Len(p)) = p

Contains(s, p) == \E i \in 1..(Len(s) - Len(p) + 1) : SubSeq(s, i, i + Len(p) - 1) = p

ReplaceChar(s, from, to) == [i \in 1..Len(s) |-> IF s[i] = from THEN to ELSE s[i]]

\* The least index of character c in s, or 0.
IndexOf(s, c) == IF \E i \in 1..Len(s) : s[i] = c
                 THEN CHOOSE i \in 1..Len(s) : s[i] = c /\ \A j \in 1..(i - 1) : s[j] # c
                 ELSE 0

\* The greatest index of character c in s, or 0.
LastIndexOf(s, c) == IF \E i \in 1..Len(s) : s[i] = c
                     THEN CHOOSE i \in 1..Len(s) : s[i] = c /\ \A j \in (i + 1)..Len(s) : s[j] # c
                     ELSE 0

\* str::split(char): one more part than there are separators; "" gives [""].
RECURSIVE Split(_, _)
Split(s, c) == LET i == IndexOf(s, c)
               IN  IF i = 0 THEN <<s>>
                   ELSE <<SubSeq(s, 1, i - 1)>> \o Split(SubSeq(s, i + 1, Len(s)), c)

\* [&str]::join(sep).
RECURSIVE Join(_, _)
Join(parts, sep) == IF Len(parts) = 0 THEN << >>
                    ELSE IF Len(parts) = 1 THEN parts[1]
                    ELSE parts[1] \o sep \o Join(Tail(parts), sep)

\* A line without the "\r" that preceded its "\n".
StripCR(l) == IF Len(l) > 0 /\ l[Len(l)] = CR THEN SubSeq(l, 1, Len(l) - 1) ELSE l

\* str::lines(): split at "\n" or "\r\n"; the final line ending is optional,
\* so a text ending in "\n" has no last empty line, and "" has no line.
RECURSIVE Lines(_)
Lines(s) == LET i == IndexOf(s, NL)
            IN  IF Len(s) = 0 THEN << >>
                ELSE IF i = 0 THEN <<s>>
                ELSE <<StripCR(SubSeq(s, 1, i - 1))>> \o Lines(SubSeq(s, i + 1, Len(s)))

(***************************************************************************)
(* std::path.                                                              *)
(***************************************************************************)
RootDir == <<"/">>

SEP == "/"

IsAbsolute(p) == Len(p) > 0 /\ p[1] = RootDir

\* The components of a path string: empty components ("//", a trailing "/")
\* are dropped, a leading "/" is the component RootDir.
NonEmpty(parts) == SelectSeq(parts, LAMBDA x : Len(x) > 0)

PathFrom(s) == IF Len(s) > 0 /\ s[1] = SEP
               THEN <<RootDir>> \o NonEmpty(Split(s, SEP))
               ELSE NonEmpty(Split(s, SEP))

\* Path::to_string_lossy.
PathString(p) == IF IsAbsolute(p) THEN <<SEP>> \o Join(Tail(p), <<SEP>>)
                 ELSE Join(p, <<SEP>>)

\* Path::join: an absolute argument replaces the path.
PathJoin(p, s) == IF Len(s) > 0 /\ s[1] = SEP THEN PathFrom(s) ELSE p \o PathFrom(s)

\* Path::parent: None for the root and for the empty path.
Parent(p) == IF Len(p) = 0 \/ p = <<RootDir>> THEN None ELSE Some(SubSeq(p, 1, Len(p) - 1))

\* Path::file_name: None for the root and for the empty path.
FileName(p) == IF Len(p) = 0 \/ p = <<RootDir>> THEN None ELSE Some(p[Len(p)])

\* The index of the "." that starts the extension of a file name, or 0: a
\* name with no ".", or whose only "." is its first character, has none.
ExtDot(name) == LET i == LastIndexOf(name, ".") IN IF i <= 1 THEN 0 ELSE i

\* Path::extension.
Extension(p) == IF FileName(p) = None \/ ExtDot(Unwrap(FileName(p))) = 0 THEN None
                ELSE LET n == Unwrap(FileName(p)) IN Some(SubSeq(n, ExtDot(n) + 1, Len(n)))

\* Path::file_stem.
FileStem(name) == IF ExtDot(name) = 0 THEN name ELSE SubSeq(name, 1, ExtDot(name) - 1)

\* Path::with_extension(""): the file name becomes its stem.
WithExtensionEmpty(p) == IF FileName(p) = None THEN p
                         ELSE SubSeq(p, 1, Len(p) - 1) \o <<FileStem(p[Len(p)])>>

IsPrefix(b, p) == Len(b) <= Len(p) /\ SubSeq(p, 1, Len(b)) = b

\* Path::strip_prefix: the rest of the path, or an error.
StripPrefix(p, base) == IF IsPrefix(base, p)
                        THEN [ok |-> TRUE, path |-> SubSeq(p, Len(base) + 1, Len(p))]
                        ELSE [ok |-> FALSE, path |-> << >>]

(***************************************************************************)
(* The file system (std::fs).  A file system f is a record                 *)
(*   dirs    the directories, a set of absolute paths holding <<RootDir>>, *)
(*   files   the regular files: path |-> [utf8, text] (utf8 = FALSE: the   *)
(*           bytes are not valid UTF-8, read_to_string fails),             *)
(*   ro      the directories in which no entry can be created or removed,  *)
(*   noread  the directories whose entries cannot be enumerated,           *)
(*   rev     the order in which read_dir yields entries, which the         *)
(*           platform leaves unspecified: ascending or descending by name. *)
(***************************************************************************)
Exists(f, p) == p \in f.dirs \/ p \in DOMAIN f.files

IsDir(f, p) == p \in f.dirs

IsFile(f, p) == p \in DOMAIN f.files

Entries(f, d) == {p \in f.dirs \cup DOMAIN f.files : Len(p) = Len(d) + 1 /\ IsPrefix(d, p)}

\* The characters of file names, in byte order.
Alphabet == <<"-", ".", "a", "b", "c", "d", "e", "h", "l", "m", "n", "o", "p", "s", "t", "u", "x", "y">>

CharRank(c) == CHOOSE i \in 1..Len(Alphabet) : Alphabet[i] = c

RECURSIVE NameLess(_, _)
NameLess(a, b) == IF Len(a) = 0 THEN Len(b) > 0
                  ELSE IF Len(b) = 0 THEN FALSE
                  ELSE IF a[1] = b[1] THEN NameLess(Tail(a), Tail(b))
                  ELSE CharRank(a[1]) < CharRank(b[1])

\* The paths of set S, all entries of one directory, in enumeration order.
RECURSIVE InOrder(_, _)
InOrder(S, rev) == IF S = {} THEN << >>
                   ELSE LET first == CHOOSE p \in S : \A q \in S \ {p} :
                                        IF rev THEN NameLess(q[Len(q)], p[Len(p)])
                                        ELSE NameLess(p[Len(p)], q[Len(q)])
                        IN  <<first>> \o InOrder(S \ {first}, rev)

\* fs::read_dir, collected.
read_dir(f, d) == IF IsDir(f, d) /\ d \notin f.noread
                  THEN [ok |-> TRUE, entries |-> InOrder(Entries(f, d), f.rev)]
                  ELSE [ok |-> FALSE, entries |-> << >>]

\* fs::read_to_string.
read_to_string(f, p) == IF IsFile(f, p) /\ f.files[p].utf8
                        THEN [ok |-> TRUE, text |-> f.files[p].text]
                        ELSE [ok |-> FALSE, text |-> << >>]

\* mkdir of one directory whose parent exists.
CanCreateIn(f, p) == /\ IsSome(Parent(p))
                     /\ IsDir(f, Unwrap(Parent(p)))
                     /\ Unwrap(Parent(p)) \notin f.ro

\* fs::create_dir_all: every missing ancestor is created in turn; the
\* directories made before a failure stay.
RECURSIVE CreatePrefixes(_, _, _)
CreatePrefixes(f, p, n) ==
    IF n > Len(p) THEN [ok |-> TRUE, fs |-> f]
    ELSE LET d == SubSeq(p, 1, n)
         IN  IF IsDir(f, d) THEN CreatePrefixes(f, p, n + 1)
             ELSE IF IsFile(f, d) \/ ~CanCreateIn(f, d) THEN [ok |-> FALSE, fs |-> f]
             ELSE CreatePrefixes([f EXCEPT !.dirs = @ \cup {d}], p, n + 1)

create_dir_all(f, p) == IF IsAbsolute(p) THEN CreatePrefixes(f, p, 1) ELSE [ok |-> FALSE, fs |-> f]

\* f.files with path p bound to content c.
WithFile(files, p, c) == [q \in DOMAIN files \cup {p} |-> IF q = p THEN c ELSE files[q]]

\* f.files without path p.
WithoutFile(files, p) == [q \in DOMAIN files \ {p} |-> files[q]]

\* A variant of write that appends to an existing file.
write_Append(f, p, text) ==
    IF IsFile(f, p)
    THEN [ok |-> TRUE, fs |-> [f EXCEPT !.files = WithFile(@, p, [utf8 |-> TRUE, text |-> @[p].text \o text])]]
    ELSE IF IsDir(f, p) \/ ~CanCreateIn(f, p) THEN [ok |-> FALSE, fs |-> f]
    ELSE [ok |-> TRUE, fs |-> [f EXCEPT !.files = WithFile(@, p, [utf8 |-> TRUE, text |-> text])]]

\* fs::write: creates the file, or replaces the content of an existing one.
write(f, p, text) ==
    IF IsFile(f, p)
    THEN [ok |-> TRUE, fs |-> [f EXCEPT !.files = WithFile(@, p, [utf8 |-> TRUE, text |-> text])]]
    ELSE IF IsDir(f, p) \/ ~CanCreateIn(f, p) THEN [ok |-> FALSE, fs |-> f]
    ELSE [ok |-> TRUE, fs |-> [f EXCEPT !.files = WithFile(@, p, [utf8 |-> TRUE, text |-> text])]]

\* A variant of remove_file that takes a missing file for removed.
remove_file_Force(f, p) ==
    IF IsFile(f, p) /\ Unwrap(Parent(p)) \notin f.ro
    THEN [ok |-> TRUE, fs |-> [f EXCEPT !.files = WithoutFile(@, p)]]
    ELSE [ok |-> TRUE, fs |-> f]

\* fs::remove_file.
remove_file(f, p) ==
    IF IsFile(f, p) /\ Unwrap(Parent(p)) \notin f.ro
    THEN [ok |-> TRUE, fs |-> [f EXCEPT !.files = WithoutFile(@, p)]]
    ELSE [ok |-> FALSE, fs |-> f]

\* fs::remove_dir: the directory must be empty, and is not the root.
remove_dir(f, p) ==
    IF IsDir(f, p) /\ Entries(f, p) = {} /\ IsSome(Parent(p)) /\ Unwrap(Parent(p)) \notin f.ro
    THEN [ok |-> TRUE, fs |-> [f EXCEPT !.dirs = @ \ {p}, !.ro = @ \ {p}, !.noread = @ \ {p}]]
    ELSE [ok |-> FALSE, fs |-> f]

(***************************************************************************)
(* find_markdown_files: the files with extension md under dir, in          *)
(* directory-walk order; an error of read_dir ends the walk.               *)
(***************************************************************************)
RECURSIVE find_markdown_files(_, _, _)

\* A variant of FindInEntries that does not skip the hidden entries.
RECURSIVE FindInEntries_NoSkip(_, _, _)
FindInEntries_NoSkip(f, entries, files) ==
    IF Len(entries) = 0 THEN [ok |-> TRUE, files |-> files]
    ELSE LET path == Head(entries)
         IN  IF IsDir(f, path)
             THEN LET r == find_markdown_files(f, path, files)
                  IN  IF r.ok THEN FindInEntries_NoSkip(f, Tail(entries), r.files) ELSE r
             ELSE IF IsFile(f, path) /\ Extension(path) = Some(S_md)
                  THEN FindInEntries_NoSkip(f, Tail(entries), Append(files, path))
             ELSE FindInEntries_NoSkip(f, Tail(entries), files)

\* The loop over the entries of one directory.
RECURSIVE FindInEntries(_, _, _)
FindInEntries(f, entries, files) ==
    IF Len(entries) = 0 THEN [ok |-> TRUE, files |-> files]
    ELSE LET path == Head(entries)
             name == path[Len(path)]
         IN  IF StartsWith(name, <<".">>) THEN FindInEntries(f, Tail(entries), files)
             ELSE IF IsDir(f, path)
                  THEN LET r == find_markdown_files(f, path, files)
                       IN  IF r.ok THEN FindInEntries(f, Tail(entries), r.files) ELSE r
             ELSE IF IsFile(f, path) /\ Extension(path) = Some(S_md)
                  THEN FindInEntries(f, Tail(entries), Append(files, path))
             ELSE FindInEntries(f, Tail(entries), files)

find_markdown_files(f, dir, files) ==
    IF ~Exists(f, dir) THEN [ok |-> TRUE, files |-> files]
    ELSE LET rd == read_dir(f, dir)
         IN  IF rd.ok THEN FindInEntries(f, rd.entries, files)
             ELSE [ok |-> FALSE, files |-> files]

(***************************************************************************)
(* remove_empty_dirs: removes dir when it is empty, then its parent when   *)
(* that is empty, and so on upward; the result is the file system left.    *)
(***************************************************************************)
RECURSIVE remove_empty_dirs(_, _)
remove_empty_dirs(f, dir) ==
    IF ~Exists(f, dir) THEN f
    ELSE LET rd == read_dir(f, dir)
         IN  IF ~rd.ok THEN f
             ELSE IF Len(rd.entries) # 0 THEN f
             ELSE LET rm == remove_dir(f, dir)
                  IN  IF ~rm.ok THEN f
                      ELSE IF IsSome(Parent(dir)) THEN remove_empty_dirs(rm.fs, Unwrap(Parent(dir)))
                      ELSE rm.fs

(***************************************************************************)
(* serde_yaml::from_str::<CommandFrontmatter>.  The model covers the block *)
(* mappings the store itself writes and their near variants: one           *)
(* "key: value" entry per line at column 0 with a plain scalar value, and  *)
(* "- item" lines under a key with no value.  Unknown keys are ignored     *)
(* (the struct does not deny them), a missing field is None, an empty      *)
(* value is null.  A text that is not such a mapping is rejected: a bare   *)
(* scalar or a sequence is not a struct, a repeated field is an error, a   *)
(* scalar where the list is expected is an error.  Quoted and flow         *)
(* styles, anchors, tags and multi-line scalars are outside the model and  *)
(* are never fed to it.                                                    *)
(***************************************************************************)
SPACE == " "

LeadingSpaces(l) == IF \A i \in 1..Len(l) : l[i] = SPACE THEN Len(l)
                    ELSE (CHOOSE i \in 1..Len(l) : l[i] # SPACE /\ \A j \in 1..(i - 1) : l[j] = SPACE) - 1

TrailingSpaces(l) == IF \A i \in 1..Len(l) : l[i] = SPACE THEN Len(l)
                     ELSE Len(l) - (CHOOSE i \in 1..Len(l) : l[i] # SPACE /\ \A j \in (i + 1)..Len(l) : l[j] = SPACE)

Trim(l) == IF LeadingSpaces(l) = Len(l) THEN << >>
           ELSE SubSeq(l, LeadingSpaces(l) + 1, Len(l) - TrailingSpaces(l))

\* The index of the ":" that ends the key of a "key: value" line, or 0.
KeyColon(l) == IF \E i \in 2..Len(l) : l[i] = ":" /\ (i = Len(l) \/ l[i + 1] = SPACE)
               THEN CHOOSE i \in 2..Len(l) :
                        /\ l[i] = ":" /\ (i = Len(l) \/ l[i + 1] = SPACE)
                        /\ \A j \in 2..(i - 1) : ~(l[j] = ":" /\ l[j + 1] = SPACE)
               ELSE 0

\* A plain scalar that stands for itself: no indicator first, no ": " and
\* no " #" inside, no ":" last.
YamlIndicators == {"-", "?", ":", ",", "[", "]", "{", "}", "#", "&", "*", "!", "|", ">", "'", "\"", "%", "@", BACKTICK}

IsPlainScalar(v) == /\ Len(v) > 0
                    /\ v[1] \notin YamlIndicators
                    /\ v[Len(v)] # ":"
                    /\ ~Contains(v, <<":", SPACE>>)
                    /\ ~Contains(v, <<SPACE, "#">>)

\* One line of the block: blank, comment, entry (key, value), item (value)
\* or bad.  n: the leading spaces of the line, rest: the line trimmed, k: the
\* index of the colon of its key.
YamlLineOf(l, n, rest, k) ==
    IF Len(rest) = 0 THEN [kind |-> "blank", key |-> << >>, value |-> << >>]
    ELSE IF rest[1] = "#" THEN [kind |-> "blank", key |-> << >>, value |-> << >>]
    ELSE IF rest[1] = "-" /\ (Len(rest) = 1 \/ rest[2] = SPACE)
         THEN [kind |-> "item", key |-> << >>, value |-> Trim(Tail(rest))]
    ELSE IF n = 0 /\ k # 0 /\ l[1] \notin YamlIndicators
         THEN [kind |-> "entry", key |-> SubSeq(l, 1, k - 1), value |-> Trim(SubSeq(l, k + 1, Len(l)))]
    ELSE [kind |-> "bad", key |-> << >>, value |-> << >>]

YamlLine(l) == YamlLineOf(l, LeadingSpaces(l), Trim(l), KeyColon(l))

YamlError == [ok |-> FALSE, description |-> None, allowed_tools |-> None,
              seen |-> {}, open |-> << >>]

\* st.open: the key whose value is still to come, as an Option; st.seen:
\* the fields read so far.  YamlStep reads the line ln and goes on with the
\* lines that follow it.
RECURSIVE YamlFold(_, _)
RECURSIVE YamlStep(_, _, _)
YamlStep(lines, st, ln) ==
    IF ln.kind = "blank" THEN YamlFold(lines, st)
    ELSE IF ln.kind = "bad" THEN YamlError
    ELSE IF ln.kind = "item"
         THEN IF st.open = None THEN YamlError
              ELSE IF Unwrap(st.open) = S_description_key THEN YamlError
              ELSE IF Unwrap(st.open) = S_allowed_tools_key
                   THEN IF IsPlainScalar(ln.value)
                        THEN YamlFold(lines,
                               [st EXCEPT !.allowed_tools =
                                   Some((IF IsSome(@) THEN Unwrap(@) ELSE << >>) \o <<ln.value>>)])
                        ELSE YamlError
              ELSE YamlFold(lines, st)
    ELSE IF ln.key \in st.seen THEN YamlError
    ELSE IF Len(ln.value) = 0
         THEN YamlFold(lines, [st EXCEPT !.seen = @ \cup {ln.key}, !.open = Some(ln.key)])
    ELSE IF ~IsPlainScalar(ln.value) THEN YamlError
    ELSE IF ln.key = S_allowed_tools_key THEN YamlError
    ELSE IF ln.key = S_description_key
         THEN YamlFold(lines, [st EXCEPT !.seen = @ \cup {ln.key}, !.open = None,
                                         !.description = Some(ln.value)])
    ELSE YamlFold(lines, [st EXCEPT !.seen = @ \cup {ln.key}, !.open = None])

YamlFold(lines, st) ==
    IF Len(lines) = 0 \/ ~st.ok THEN st
    ELSE YamlStep(Tail(lines), st, YamlLine(Head(lines)))

\* The result: [ok, description: Option<String>, allowed_tools: Option<Vec<String>>].
YamlResult(st) == [ok |-> st.ok, description |-> st.description, allowed_tools |-> st.allowed_tools]

yaml_from_str(text) ==
    YamlResult(YamlFold(Split(text, NL),
                        [ok |-> TRUE, description |-> None, allowed_tools |-> None,
                         seen |-> {}, open |-> None]))

(***************************************************************************)
(* parse_markdown_with_frontmatter: (Option<CommandFrontmatter>, body).    *)
(***************************************************************************)
\* The index of the first line after the first that is "---", as an Option.
FrontmatterEnd(lines) ==
    IF \E i \in 2..Len(lines) : lines[i] = DELIM
    THEN Some(CHOOSE i \in 2..Len(lines) : lines[i] = DELIM /\ \A j \in 2..(i - 1) : lines[j] # DELIM)
    ELSE None

\* The match on the result of serde_yaml::from_str.
ParsedFrontmatter(content, body_content, parsed) ==
    IF parsed.ok
    THEN [frontmatter |-> Some([allowed_tools |-> parsed.allowed_tools,
                                description |-> parsed.description]),
          body |-> body_content]
    ELSE [frontmatter |-> None, body |-> content]

ParseLines(content, lines, frontmatter_end) ==
    IF Len(lines) = 0 \/ lines[1] # DELIM
    THEN [frontmatter |-> None, body |-> content]
    ELSE IF frontmatter_end = None THEN [frontmatter |-> None, body |-> content]
    ELSE ParsedFrontmatter(content,
                           Join(SubSeq(lines, Unwrap(frontmatter_end) + 1, Len(lines)), <<NL>>),
                           yaml_from_str(Join(SubSeq(lines, 2, Unwrap(frontmatter_end) - 1), <<NL>>)))

parse_markdown_with_frontmatter(content) ==
    ParseLines(content, Lines(content), FrontmatterEnd(Lines(content)))

(***************************************************************************)
(* extract_command_info: (name, Option<namespace>) of a file under base.   *)
(***************************************************************************)
\* A variant of NameAndNamespace that joins the namespace with "/".
NameAndNamespace_Slash(components) ==
    IF Len(components) = 0
    THEN [ok |-> FALSE, msg |-> "Invalid command path", name |-> << >>, namespace |-> None]
    ELSE IF Len(components) = 1
    THEN [ok |-> TRUE, msg |-> "", name |-> components[1], namespace |-> None]
    ELSE [ok |-> TRUE, msg |-> "", name |-> components[Len(components)],
          namespace |-> Some(Join(SubSeq(components, 1, Len(components) - 1), <<SEP>>))]

\* The name and the namespace of the "/"-separated components.
NameAndNamespace(components) ==
    IF Len(components) = 0
    THEN [ok |-> FALSE, msg |-> "Invalid command path", name |-> << >>, namespace |-> None]
    ELSE IF Len(components) = 1
    THEN [ok |-> TRUE, msg |-> "", name |-> components[1], namespace |-> None]
    ELSE [ok |-> TRUE, msg |-> "", name |-> components[Len(components)],
          namespace |-> Some(Join(SubSeq(components, 1, Len(components) - 1), <<":">>))]

InfoOf(relative_path) ==
    IF ~relative_path.ok
    THEN [ok |-> FALSE, msg |-> "Failed to get relative path", name |-> << >>, namespace |-> None]
    ELSE NameAndNamespace(Split(PathString(WithExtensionEmpty(relative_path.path)), SEP))

extract_command_info(file_path, base_path) == InfoOf(StripPrefix(file_path, base_path))

(***************************************************************************)
(* load_command_from_file: the record of one file, or an error.            *)
(***************************************************************************)
NoCommand == [id |-> << >>, name |-> << >>, full_command |-> << >>, scope |-> << >>,
              namespace |-> None, file_path |-> << >>, content |-> << >>, description |-> None,
              allowed_tools |-> << >>,
              has_bash_commands |-> FALSE, has_file_references |-> FALSE, accepts_arguments |-> FALSE]

\* The record built from the parsed text and the name and namespace.
CommandOf(file_path, scope, info, frontmatter, body) ==
    [id |-> scope \o <<"-">> \o ReplaceChar(PathString(file_path), SEP, "-"),
     name |-> info.name,
     full_command |-> IF IsSome(info.namespace)
                      THEN <<SEP>> \o Unwrap(info.namespace) \o <<":">> \o info.name
                      ELSE <<SEP>> \o info.name,
     scope |-> scope,
     namespace |-> info.namespace,
     file_path |-> PathString(file_path),
     content |-> body,
     description |-> IF IsSome(frontmatter) THEN Unwrap(frontmatter).description ELSE None,
     allowed_tools |-> IF IsSome(frontmatter) /\ IsSome(Unwrap(frontmatter).allowed_tools)
                       THEN Unwrap(Unwrap(frontmatter).allowed_tools) ELSE << >>,
     has_bash_commands |-> Contains(body, S_bang_tick),
     has_file_references |-> Contains(body, <<"@">>),
     accepts_arguments |-> Contains(body, S_ARGUMENTS)]

ParsedCommand(file_path, scope, info, parsed) ==
    CommandOf(file_path, scope, info, parsed.frontmatter, parsed.body)

\* A variant of LoadedFrom that looks for the markers in the text of the
\* file.
LoadedFrom_WholeText(file_path, scope, content, info) ==
    IF ~content.ok THEN [ok |-> FALSE, msg |-> "Failed to read command file", cmd |-> NoCommand]
    ELSE IF ~info.ok THEN [ok |-> FALSE, msg |-> "Failed to extract command info", cmd |-> NoCommand]
    ELSE [ok |-> TRUE, msg |-> "",
          cmd |-> [ParsedCommand(file_path, scope, info, parse_markdown_with_frontmatter(content.text))
                      EXCEPT !.has_bash_commands = Contains(content.text, S_bang_tick),
                             !.has_file_references = Contains(content.text, <<"@">>),
                             !.accepts_arguments = Contains(content.text, S_ARGUMENTS)]]

\* content: the result of read_to_string; info: that of extract_command_info.
LoadedFrom(file_path, scope, content, info) ==
    IF ~content.ok THEN [ok |-> FALSE, msg |-> "Failed to read command file", cmd |-> NoCommand]
    ELSE IF ~info.ok THEN [ok |-> FALSE, msg |-> "Failed to extract command info", cmd |-> NoCommand]
    ELSE [ok |-> TRUE, msg |-> "",
          cmd |-> ParsedCommand(file_path, scope, info, parse_markdown_with_frontmatter(content.text))]

load_command_from_file(f, file_path, base_path, scope) ==
    LoadedFrom(file_path, scope, read_to_string(f, file_path), extract_command_info(file_path, base_path))

(***************************************************************************)
(* create_default_commands: the table of built-in commands, verbatim.      *)
(***************************************************************************)
create_default_commands ==
   <<
      [id |-> <<"d", "e", "f", "a", "u", "l", "t", "-", "a", "d", "d", "-", "d", "i", "r">>,
       name |-> <<"a", "d", "d", "-", "d", "i", "r">>,
       full_command |-> <<"/", "a", "d", "d", "-", "d", "i", "r">>,
       scope |-> <<"d", "e", "f", "a", "u", "l", "t">>,
       namespace |-> << >>,
       file_path |-> << >>,
       content |-> <<"A", "d", "d", " ", "a", "d", "d", "i", "t", "i", "o", "n", "a", "l", " ", "w", "o", "r", "k", "i", "n", "g", " ", "d", "i", "r", "e", "c", "t", "o", "r", "i", "e", "s">>,
       description |-> <<<<"A", "d", "d", " ", "a", "d", "d", "i", "t", "i", "o", "n", "a", "l", " ", "w", "o", "r", "k", "i", "n", "g", " ", "d", "i", "r", "e", "c", "t", "o", "r", "i", "e", "s", " ", "t", "o", " ", "t", "h", "e", " ", "c", "u", "r", "r", "e", "n", "t", " ", "s", "e", "s", "s", "i", "o", "n">>>>,
       allowed_tools |-> << >>,
       has_bash_commands |-> FALSE, has_file_references |-> FALSE, accepts_arguments |-> FALSE],
      [id |-> <<"d", "e", "f", "a", "u", "l", "t", "-", "i", "n", "i", "t">>,
       name |-> <<"i", "n", "i", "t">>,
       full_command |-> <<"/", "i", "n", "i", "t">>,
       scope |-> <<"d", "e", "f", "a", "u", "l", "t">>,
       namespace |-> << >>,
       file_path |-> << >>,
       content |-> <<"I", "n", "i", "t", "i", "a", "l", "i", "z", "e", " ", "p", "r", "o", "j", "e", "c", "t", " ", "w", "i", "t", "h", " ", "C", "L", "A", "U", "D", "E", ".", "m", "d", " ", "g", "u", "i", "d", "e">>,
       description |-> <<<<"I", "n", "i", "t", "i", "a", "l", "i", "z", "e", " ", "p", "r", "o", "j", "e", "c", "t", " ", "w", "i", "t", "h", " ", "C", "L", "A", "U", "D", "E", ".", "m", "d", " ", "g", "u", "i", "d", "e", " ", "a", "n", "d", " ", "s", "e", "t", "u", "p", " ", "f", "i", "l", "e", "s">>>>,
       allowed_tools |-> << >>,
       has_bash_commands |-> FALSE, has_file_references |-> FALSE, accepts_arguments |-> FALSE],
      [id |-> <<"d", "e", "f", "a", "u", "l", "t", "-", "r", "e", "v", "i", "e", "w">>,
       name |-> <<"r", "e", "v", "i", "e", "w">>,
       full_command |-> <<"/", "r", "e", "v", "i", "e", "w">>,
       scope |-> <<"d", "e", "f", "a", "u", "l", "t">>,
       namespace |-> << >>,
       file_path |-> << >>,
       content |-> <<"R", "e", "q", "u", "e", "s", "t", " ", "c", "o", "d", "e", " ", "r", "e", "v", "i", "e", "w">>,
       description |-> <<<<"R", "e", "q", "u", "e", "s", "t", " ", "a", " ", "c", "o", "m", "p", "r", "e", "h", "e", "n", "s", "i", "v", "e", " ", "c", "o", "d", "e", " ", "r", "e", "v", "i", "e", "w", " ", "o", "f", " ", "r", "e", "c", "e", "n", "t", " ", "c", "h", "a", "n", "g", "e", "s">>>>,
       allowed_tools |-> << >>,
       has_bash_commands |-> FALSE, has_file_references |-> FALSE, accepts_arguments |-> FALSE],
      [id |-> <<"d", "e", "f", "a", "u", "l", "t", "-", "c", "o", "m", "m", "i", "t">>,
       name |-> <<"c", "o", "m", "m", "i", "t">>,
       full_command |-> <<"/", "c", "o", "m", "m", "i", "t">>,
       scope |-> <<"d", "e", "f", "a", "u", "l", "t">>,
       namespace |-> << >>,
       file_path |-> << >>,
       content |-> <<"C", "r", "e", "a", "t", "e", " ", "a", " ", "g", "i", "t", " ", "c", "o", "m", "m", "i", "t">>,
       description |-> <<<<"C", "r", "e", "a", "t", "e", " ", "a", " ", "g", "i", "t", " ", "c", "o", "m", "m", "i", "t", " ", "w", "i", "t", "h", " ", "s", "t", "a", "g", "e", "d", " ", "c", "h", "a", "n", "g", "e", "s", " ", "a", "n", "d", " ", "a", " ", "d", "e", "s", "c", "r", "i", "p", "t", "i", "v", "e", " ", "m", "e", "s", "s", "a", "g", "e">>>>,
       allowed_tools |-> << >>,
       has_bash_commands |-> FALSE, has_file_references |-> FALSE, accepts_arguments |-> FALSE],
      [id |-> <<"d", "e", "f", "a", "u", "l", "t", "-", "r", "e", "v", "i", "e", "w", "-", "p", "r">>,
       name |-> <<"r", "e", "v", "i", "e", "w", "-", "p", "r">>,
       full_command |-> <<"/", "r", "e", "v", "i", "e", "w", "-", "p", "r">>,
       scope |-> <<"d", "e", "f", "a", "u", "l", "t">>,
       namespace |-> << >>,
       file_path |-> << >>,
       content |-> <<"R", "e", "v", "i", "e", "w", " ", "a", " ", "p", "u", "l", "l", " ", "r", "e", "q", "u", "e", "s", "t">>,
       description |-> <<<<"R", "e", "v", "i", "e", "w", " ", "a", " ", "G", "i", "t", "H", "u", "b", " ", "p", "u", "l", "l", " ", "r", "e", "q", "u", "e", "s", "t", " ", "a", "n", "d", " ", "p", "r", "o", "v", "i", "d", "e", " ", "f", "e", "e", "d", "b", "a", "c", "k">>>>,
       allowed_tools |-> << >>,
       has_bash_commands |-> FALSE, has_file_references |-> FALSE, accepts_arguments |-> TRUE],
      [id |-> <<"d", "e", "f", "a", "u", "l", "t", "-", "p", "r">>,
       name |-> <<"p", "r">>,
       full_command |-> <<"/", "p", "r">>,
       scope |-> <<"d", "e", "f", "a", "u", "l", "t">>,
       namespace |-> << >>,
       file_path |-> << >>,
       content |-> <<"C", "r", "e", "a", "t", "e", " ", "a", " ", "p", "u", "l", "l", " ", "r", "e", "q", "u", "e", "s", "t">>,
       description |-> <<<<"C", "r", "e", "a", "t", "e", " ", "a", " ", "G", "i", "t", "H", "u", "b", " ", "p", "u", "l", "l", " ", "r", "e", "q", "u", "e", "s", "t", " ", "f", "r", "o", "m", " ", "t", "h", "e", " ", "c", "u", "r", "r", "e", "n", "t", " ", "b", "r", "a", "n", "c", "h">>>>,
       allowed_tools |-> << >>,
       has_bash_commands |-> FALSE, has_file_references |-> FALSE, accepts_arguments |-> FALSE],
      [id |-> <<"d", "e", "f", "a", "u", "l", "t", "-", "t", "e", "s", "t">>,
       name |-> <<"t", "e", "s", "t">>,
       full_command |-> <<"/", "t", "e", "s", "t">>,
       scope |-> <<"d", "e", "f", "a", "u", "l", "t">>,
       namespace |-> << >>,
       file_path |-> << >>,
       content |-> <<"R", "u", "n", " ", "t", "e", "s", "t", "s">>,
       description |-> <<<<"R", "u", "n", " ", "t", "h", "e", " ", "p", "r", "o", "j", "e", "c", "t", "'", "s", " ", "t", "e", "s", "t", " ", "s", "u", "i", "t", "e", " ", "a", "n", "d", " ", "a", "n", "a", "l", "y", "z", "e", " ", "r", "e", "s", "u", "l", "t", "s">>>>,
       allowed_tools |-> << >>,
       has_bash_commands |-> FALSE, has_file_references |-> FALSE, accepts_arguments |-> FALSE],
      [id |-> <<"d", "e", "f", "a", "u", "l", "t", "-", "f", "i", "x">>,
       name |-> <<"f", "i", "x">>,
       full_command |-> <<"/", "f", "i", "x">>,
       scope |-> <<"d", "e", "f", "a", "u", "l", "t">>,
       namespace |-> << >>,
       file_path |-> << >>,
       content |-> <<"F", "i", "x", " ", "e", "r", "r", "o", "r", "s", " ", "o", "r", " ", "i", "s", "s", "u", "e", "s">>,
       description |-> <<<<"A", "n", "a", "l", "y", "z", "e", " ", "a", "n", "d", " ", "f", "i", "x", " ", "e", "r", "r", "o", "r", "s", ",", " ", "b", "u", "g", "s", ",", " ", "o", "r", " ", "i", "s", "s", "u", "e", "s", " ", "i", "n", " ", "t", "h", "e", " ", "c", "o", "d", "e">>>>,
       allowed_tools |-> << >>,
       has_bash_commands |-> FALSE, has_file_references |-> FALSE, accepts_arguments |-> FALSE],
      [id |-> <<"d", "e", "f", "a", "u", "l", "t", "-", "d", "e", "b", "u", "g">>,
       name |-> <<"d", "e", "b", "u", "g">>,
       full_command |-> <<"/", "d", "e", "b", "u", "g">>,
       scope |-> <<"d", "e", "f", "a", "u", "l", "t">>,
       namespace |-> << >>,
       file_path |-> << >>,
       content |-> <<"D", "e", "b", "u", "g", " ", "a", "n", " ", "i", "s", "s", "u", "e">>,
       description |-> <<<<"H", "e", "l", "p", " ", "d", "e", "b", "u", "g", " ", "a", "n", "d", " ", "d", "i", "a", "g", "n", "o", "s", "e", " ", "i", "s", "s", "u", "e", "s", " ", "i", "n", " ", "t", "h", "e", " ", "c", "o", "d", "e">>>>,
       allowed_tools |-> << >>,
       has_bash_commands |-> FALSE, has_file_references |-> FALSE, accepts_arguments |-> FALSE],
      [id |-> <<"d", "e", "f", "a", "u", "l", "t", "-", "e", "x", "p", "l", "a", "i", "n">>,
       name |-> <<"e", "x", "p", "l", "a", "i", "n">>,
       full_command |-> <<"/", "e", "x", "p", "l", "a", "i", "n">>,
       scope |-> <<"d", "e", "f", "a", "u", "l", "t">>,
       namespace |-> << >>,
       file_path |-> << >>,
       content |-> <<"E", "x", "p", "l", "a", "i", "n", " ", "c", "o", "d", "e", " ", "o", "r", " ", "c", "o", "n", "c", "e", "p", "t", "s">>,
       description |-> <<<<"E", "x", "p", "l", "a", "i", "n", " ", "h", "o", "w", " ", "c", "o", "d", "e", " ", "w", "o", "r", "k", "s", " ", "o", "r", " ", "c", "l", "a", "r", "i", "f", "y", " ", "t", "e", "c", "h", "n", "i", "c", "a", "l", " ", "c", "o", "n", "c", "e", "p", "t", "s">>>>,
       allowed_tools |-> << >>,
       has_bash_commands |-> FALSE, has_file_references |-> FALSE, accepts_arguments |-> FALSE],
      [id |-> <<"d", "e", "f", "a", "u", "l", "t", "-", "r", "e", "f", "a", "c", "t", "o", "r">>,
       name |-> <<"r", "e", "f", "a", "c", "t", "o", "r">>,
       full_command |-> <<"/", "r", "e", "f", "a", "c", "t", "o", "r">>,
       scope |-> <<"d", "e", "f", "a", "u", "l", "t">>,
       namespace |-> << >>,
       file_path |-> << >>,
       content |-> <<"R", "e", "f", "a", "c", "t", "o", "r", " ", "c", "o", "d", "e">>,
       description |-> <<<<"R", "e", "f", "a", "c", "t", "o", "r", " ", "c", "o", "d", "e", " ", "t", "o", " ", "i", "m", "p", "r", "o", "v", "e", " ", "s", "t", "r", "u", "c", "t", "u", "r", "e", ",", " ", "r", "e", "a", "d", "a", "b", "i", "l", "i", "t", "y", ",", " ", "o", "r", " ", "p", "e", "r", "f", "o", "r", "m", "a", "n", "c", "e">>>>,
       allowed_tools |-> << >>,
       has_bash_commands |-> FALSE, has_file_references |-> FALSE, accepts_arguments |-> FALSE],
      [id |-> <<"d", "e", "f", "a", "u", "l", "t", "-", "o", "p", "t", "i", "m", "i", "z", "e">>,
       name |-> <<"o", "p", "t", "i", "m", "i", "z", "e">>,
       full_command |-> <<"/", "o", "p", "t", "i", "m", "i", "z", "e">>,
       scope |-> <<"d", "e", "f", "a", "u", "l", "t">>,
       namespace |-> << >>,
       file_path |-> << >>,
       content |-> <<"O", "p", "t", "i", "m", "i", "z", "e", " ", "c", "o", "d", "e", " ", "p", "e", "r", "f", "o", "r", "m", "a", "n", "c", "e">>,
       description |-> <<<<"O", "p", "t", "i", "m", "i", "z", "e", " ", "c", "o", "d", "e", " ", "f", "o", "r", " ", "b", "e", "t", "t", "e", "r", " ", "p", "e", "r", "f", "o", "r", "m", "a", "n", "c", "e", " ", "a", "n", "d", " ", "e", "f", "f", "i", "c", "i", "e", "n", "c", "y">>>>,
       allowed_tools |-> << >>,
       has_bash_commands |-> FALSE, has_file_references |-> FALSE, accepts_arguments |-> FALSE],
      [id |-> <<"d", "e", "f", "a", "u", "l", "t", "-", "d", "o", "c", "s">>,
       name |-> <<"d", "o", "c", "s">>,
       full_command |-> <<"/", "d", "o", "c", "s">>,
       scope |-> <<"d", "e", "f", "a", "u", "l", "t">>,
       namespace |-> << >>,
       file_path |-> << >>,
       content |-> <<"G", "e", "n", "e", "r", "a", "t", "e", " ", "d", "o", "c", "u", "m", "e", "n", "t", "a", "t", "i", "o", "n">>,
       description |-> <<<<"G", "e", "n", "e", "r", "a", "t", "e", " ", "o", "r", " ", "u", "p", "d", "a", "t", "e", " ", "c", "o", "d", "e", " ", "d", "o", "c", "u", "m", "e", "n", "t", "a", "t", "i", "o", "n", " ", "a", "n", "d", " ", "c", "o", "m", "m", "e", "n", "t", "s">>>>,
       allowed_tools |-> << >>,
       has_bash_commands |-> FALSE, has_file_references |-> FALSE, accepts_arguments |-> FALSE],
      [id |-> <<"d", "e", "f", "a", "u", "l", "t", "-", "s", "e", "c", "u", "r", "i", "t", "y">>,
       name |-> <<"s", "e", "c", "u", "r", "i", "t", "y">>,
       full_command |-> <<"/", "s", "e", "c", "u", "r", "i", "t", "y">>,
       scope |-> <<"d", "e", "f", "a", "u", "l", "t">>,
       namespace |-> << >>,
       file_path |-> << >>,
       content |-> <<"S", "e", "c", "u", "r", "i", "t", "y", " ", "a", "u", "d", "i", "t">>,
       description |-> <<<<"P", "e", "r", "f", "o", "r", "m", " ", "a", " ", "s", "e", "c", "u", "r", "i", "t", "y", " ", "a", "u", "d", "i", "t", " ", "a", "n", "d", " ", "i", "d", "e", "n", "t", "i", "f", "y", " ", "v", "u", "l", "n", "e", "r", "a", "b", "i", "l", "i", "t", "i", "e", "s">>>>,
       allowed_tools |-> << >>,
       has_bash_commands |-> FALSE, has_file_references |-> FALSE, accepts_arguments |-> FALSE],
      [id |-> <<"d", "e", "f", "a", "u", "l", "t", "-", "r", "e", "m", "e", "m", "b", "e", "r">>,
       name |-> <<"r", "e", "m", "e", "m", "b", "e", "r">>,
       full_command |-> <<"/", "r", "e", "m", "e", "m", "b", "e", "r">>,
       scope |-> <<"d", "e", "f", "a", "u", "l", "t">>,
       namespace |-> << >>,
       file_path |-> << >>,
       content |-> <<"R", "e", "m", "e", "m", "b", "e", "r", " ", "i", "n", "f", "o", "r", "m", "a", "t", "i", "o", "n">>,
       description |-> <<<<"S", "t", "o", "r", "e", " ", "i", "n", "f", "o", "r", "m", "a", "t", "i", "o", "n", " ", "f", "o", "r", " ", "f", "u", "t", "u", "r", "e", " ", "r", "e", "f", "e", "r", "e", "n", "c", "e", " ", "i", "n", " ", "t", "h", "e", " ", "s", "e", "s", "s", "i", "o", "n">>>>,
       allowed_tools |-> << >>,
       has_bash_commands |-> FALSE, has_file_references |-> FALSE, accepts_arguments |-> TRUE],
      [id |-> <<"d", "e", "f", "a", "u", "l", "t", "-", "m", "o", "d", "e", "l">>,
       name |-> <<"m", "o", "d", "e", "l">>,
       full_command |-> <<"/", "m", "o", "d", "e", "l">>,
       scope |-> <<"d", "e", "f", "a", "u", "l", "t">>,
       namespace |-> << >>,
       file_path |-> << >>,
       content |-> <<"S", "w", "i", "t", "c", "h", " ", "A", "I", " ", "m", "o", "d", "e", "l">>,
       description |-> <<<<"S", "w", "i", "t", "c", "h", " ", "b", "e", "t", "w", "e", "e", "n", " ", "d", "i", "f", "f", "e", "r", "e", "n", "t", " ", "C", "l", "a", "u", "d", "e", " ", "A", "I", " ", "m", "o", "d", "e", "l", "s">>>>,
       allowed_tools |-> << >>,
       has_bash_commands |-> FALSE, has_file_references |-> FALSE, accepts_arguments |-> FALSE],
      [id |-> <<"d", "e", "f", "a", "u", "l", "t", "-", "c", "l", "e", "a", "r">>,
       name |-> <<"c", "l", "e", "a", "r">>,
       full_command |-> <<"/", "c", "l", "e", "a", "r">>,
       scope |-> <<"d", "e", "f", "a", "u", "l", "t">>,
       namespace |-> << >>,
       file_path |-> << >>,
       content |-> <<"C", "l", "e", "a", "r", " ", "c", "o", "n", "v", "e", "r", "s", "a", "t", "i", "o", "n">>,
       description |-> <<<<"C", "l", "e", "a", "r", " ", "t", "h", "e", " ", "c", "u", "r", "r", "e", "n", "t", " ", "c", "o", "n", "v", "e", "r", "s", "a", "t", "i", "o", "n", " ", "h", "i", "s", "t", "o", "r", "y">>>>,
       allowed_tools |-> << >>,
       has_bash_commands |-> FALSE, has_file_references |-> FALSE, accepts_arguments |-> FALSE],
      [id |-> <<"d", "e", "f", "a", "u", "l", "t", "-", "h", "e", "l", "p">>,
       name |-> <<"h", "e", "l", "p">>,
       full_command |-> <<"/", "h", "e", "l", "p">>,
       scope |-> <<"d", "e", "f", "a", "u", "l", "t">>,
       namespace |-> << >>,
       file_path |-> << >>,
       content |-> <<"S", "h", "o", "w", " ", "h", "e", "l", "p", " ", "i", "n", "f", "o", "r", "m", "a", "t", "i", "o", "n">>,
       description |-> <<<<"D", "i", "s", "p", "l", "a", "y", " ", "h", "e", "l", "p", " ", "i", "n", "f", "o", "r", "m", "a", "t", "i", "o", "n", " ", "a", "n", "d", " ", "a", "v", "a", "i", "l", "a", "b", "l", "e", " ", "c", "o", "m", "m", "a", "n", "d", "s">>>>,
       allowed_tools |-> << >>,
       has_bash_commands |-> FALSE, has_file_references |-> FALSE, accepts_arguments |-> FALSE],
      [id |-> <<"d", "e", "f", "a", "u", "l", "t", "-", "u", "s", "a", "g", "e">>,
       name |-> <<"u", "s", "a", "g", "e">>,
       full_command |-> <<"/", "u", "s", "a", "g", "e">>,
       scope |-> <<"d", "e", "f", "a", "u", "l", "t">>,
       namespace |-> << >>,
       file_path |-> << >>,
       content |-> <<"S", "h", "o", "w", " ", "u", "s", "a", "g", "e", " ", "s", "t", "a", "t", "i", "s", "t", "i", "c", "s">>,
       description |-> <<<<"D", "i", "s", "p", "l", "a", "y", " ", "A", "P", "I", " ", "u", "s", "a", "g", "e", " ", "s", "t", "a", "t", "i", "s", "t", "i", "c", "s", " ", "a", "n", "d", " ", "c", "o", "s", "t", "s">>>>,
       allowed_tools |-> << >>,
       has_bash_commands |-> FALSE, has_file_references |-> FALSE, accepts_arguments |-> FALSE],
      [id |-> <<"d", "e", "f", "a", "u", "l", "t", "-", "s", "e", "t", "t", "i", "n", "g", "s">>,
       name |-> <<"s", "e", "t", "t", "i", "n", "g", "s">>,
       full_command |-> <<"/", "s", "e", "t", "t", "i", "n", "g", "s">>,
       scope |-> <<"d", "e", "f", "a", "u", "l", "t">>,
       namespace |-> << >>,
       file_path |-> << >>,
       content |-> <<"O", "p", "e", "n", " ", "s", "e", "t", "t", "i", "n", "g", "s">>,
       description |-> <<<<"O", "p", "e", "n", " ", "a", "n", "d", " ", "m", "a", "n", "a", "g", "e", " ", "C", "l", "a", "u", "d", "e", " ", "C", "o", "d", "e", " ", "s", "e", "t", "t", "i", "n", "g", "s">>>>,
       allowed_tools |-> << >>,
       has_bash_commands |-> FALSE, has_file_references |-> FALSE, accepts_arguments |-> FALSE],
      [id |-> <<"d", "e", "f", "a", "u", "l", "t", "-", "a", "g", "e", "n", "t", "s">>,
       name |-> <<"a", "g", "e", "n", "t", "s">>,
       full_command |-> <<"/", "a", "g", "e", "n", "t", "s">>,
       scope |-> <<"d", "e", "f", "a", "u", "l", "t">>,
       namespace |-> << >>,
       file_path |-> << >>,
       content |-> <<"M", "a", "n", "a", "g", "e", " ", "c", "u", "s", "t", "o", "m", " ", "A", "I", " ", "s", "u", "b", "a", "g", "e", "n", "t", "s">>,
       description |-> <<<<"M", "a", "n", "a", "g", "e", " ", "c", "u", "s", "t", "o", "m", " ", "A", "I", " ", "s", "u", "b", "a", "g", "e", "n", "t", "s", " ", "f", "o", "r", " ", "s", "p", "e", "c", "i", "a", "l", "i", "z", "e", "d", " ", "t", "a", "s", "k", "s">>>>,
       allowed_tools |-> << >>,
       has_bash_commands |-> FALSE, has_file_references |-> FALSE, accepts_arguments |-> FALSE],
      [id |-> <<"d", "e", "f", "a", "u", "l", "t", "-", "b", "a", "s", "h", "e", "s">>,
       name |-> <<"b", "a", "s", "h", "e", "s">>,
       full_command |-> <<"/", "b", "a", "s", "h", "e", "s">>,
       scope |-> <<"d", "e", "f", "a", "u", "l", "t">>,
       namespace |-> << >>,
       file_path |-> << >>,
       content |-> <<"L", "i", "s", "t", " ", "a", "n", "d", " ", "m", "a", "n", "a", "g", "e", " ", "b", "a", "c", "k", "g", "r", "o", "u", "n", "d", " ", "t", "a", "s", "k", "s">>,
       description |-> <<<<"L", "i", "s", "t", " ", "a", "n", "d", " ", "m", "a", "n", "a", "g", "e", " ", "b", "a", "c", "k", "g", "r", "o", "u", "n", "d", " ", "b", "a", "s", "h", " ", "t", "a", "s", "k", "s">>>>,
       allowed_tools |-> << >>,
       has_bash_commands |-> FALSE, has_file_references |-> FALSE, accepts_arguments |-> FALSE],
      [id |-> <<"d", "e", "f", "a", "u", "l", "t", "-", "b", "u", "g">>,
       name |-> <<"b", "u", "g">>,
       full_command |-> <<"/", "b", "u", "g">>,
       scope |-> <<"d", "e", "f", "a", "u", "l", "t">>,
       namespace |-> << >>,
       file_path |-> << >>,
       content |-> <<"R", "e", "p", "o", "r", "t", " ", "b", "u", "g", "s">>,
       description |-> <<<<"R", "e", "p", "o", "r", "t", " ", "b", "u", "g", "s", " ", "(", "s", "e", "n", "d", "s", " ", "c", "o", "n", "v", "e", "r", "s", "a", "t", "i", "o", "n", " ", "t", "o", " ", "A", "n", "t", "h", "r", "o", "p", "i", "c", ")">>>>,
       allowed_tools |-> << >>,
       has_bash_commands |-> FALSE, has_file_references |-> FALSE, accepts_arguments |-> FALSE],
      [id |-> <<"d", "e", "f", "a", "u", "l", "t", "-", "c", "o", "m", "p", "a", "c", "t">>,
       name |-> <<"c", "o", "m", "p", "a", "c", "t">>,
       full_command |-> <<"/", "c", "o", "m", "p", "a", "c", "t">>,
       scope |-> <<"d", "e", "f", "a", "u", "l", "t">>,
       namespace |-> << >>,
       file_path |-> << >>,
       content |-> <<"C", "o", "m", "p", "a", "c", "t", " ", "c", "o", "n", "v", "e", "r", "s", "a", "t", "i", "o", "n">>,
       description |-> <<<<"C", "o", "m", "p", "a", "c", "t", " ", "c", "o", "n", "v", "e", "r", "s", "a", "t", "i", "o", "n", " ", "w", "i", "t", "h", " ", "o", "p", "t", "i", "o", "n", "a", "l", " ", "f", "o", "c", "u", "s", " ", "i", "n", "s", "t", "r", "u", "c", "t", "i", "o", "n", "s">>>>,
       allowed_tools |-> << >>,
       has_bash_commands |-> FALSE, has_file_references |-> FALSE, accepts_arguments |-> TRUE],
      [id |-> <<"d", "e", "f", "a", "u", "l", "t", "-", "c", "o", "n", "f", "i", "g">>,
       name |-> <<"c", "o", "n", "f", "i", "g">>,
       full_command |-> <<"/", "c", "o", "n", "f", "i", "g">>,
       scope |-> <<"d", "e", "f", "a", "u", "l", "t">>,
       namespace |-> << >>,
       file_path |-> << >>,
       content |-> <<"O", "p", "e", "n", " ", "s", "e", "t", "t", "i", "n", "g", "s", " ", "i", "n", "t", "e", "r", "f", "a", "c", "e">>,
       description |-> <<<<"O", "p", "e", "n", " ", "t", "h", "e", " ", "S", "e", "t", "t", "i", "n", "g", "s", " ", "i", "n", "t", "e", "r", "f", "a", "c", "e", " ", "(", "C", "o", "n", "f", "i", "g", " ", "t", "a", "b", ")", ".", " ", "T", "y", "p", "e", " ", "t", "o", " ", "s", "e", "a", "r", "c", "h", " ", "a", "n", "d", " ", "f", "i", "l", "t", "e", "r", " ", "s", "e", "t", "t", "i", "n", "g", "s">>>>,
       allowed_tools |-> << >>,
       has_bash_commands |-> FALSE, has_file_references |-> FALSE, accepts_arguments |-> FALSE],
      [id |-> <<"d", "e", "f", "a", "u", "l", "t", "-", "c", "o", "n", "t", "e", "x", "t">>,
       name |-> <<"c", "o", "n", "t", "e", "x", "t">>,
       full_command |-> <<"/", "c", "o", "n", "t", "e", "x", "t">>,
       scope |-> <<"d", "e", "f", "a", "u", "l", "t">>,
       namespace |-> << >>,
       file_path |-> << >>,
       content |-> <<"V", "i", "s", "u", "a", "l", "i", "z", "e", " ", "c", "o", "n", "t", "e", "x", "t", " ", "u", "s", "a", "g", "e">>,
       description |-> <<<<"V", "i", "s", "u", "a", "l", "i", "z", "e", " ", "c", "u", "r", "r", "e", "n", "t", " ", "c", "o", "n", "t", "e", "x", "t", " ", "u", "s", "a", "g", "e", " ", "a", "s", " ", "a", " ", "c", "o", "l", "o", "r", "e", "d", " ", "g", "r", "i", "d">>>>,
       allowed_tools |-> << >>,
       has_bash_commands |-> FALSE, has_file_references |-> FALSE, accepts_arguments |-> FALSE],
      [id |-> <<"d", "e", "f", "a", "u", "l", "t", "-", "c", "o", "s", "t">>,
       name |-> <<"c", "o", "s", "t">>,
       full_command |-> <<"/", "c", "o", "s", "t">>,
       scope |-> <<"d", "e", "f", "a", "u", "l", "t">>,
       namespace |-> << >>,
       file_path |-> << >>,
       content |-> <<"S", "h", "o", "w", " ", "t", "o", "k", "e", "n", " ", "u", "s", "a", "g", "e", " ", "s", "t", "a", "t", "i", "s", "t", "i", "c", "s">>,
       description |-> <<<<"S", "h", "o", "w", " ", "t", "o", "k", "e", "n", " ", "u", "s", "a", "g", "e", " ", "s", "t", "a", "t", "i", "s", "t", "i", "c", "s", " ", "a", "n", "d", " ", "c", "o", "s", "t", " ", "t", "r", "a", "c", "k", "i", "n", "g">>>>,
       allowed_tools |-> << >>,
       has_bash_commands |-> FALSE, has_file_references |-> FALSE, accepts_arguments |-> FALSE],
      [id |-> <<"d", "e", "f", "a", "u", "l", "t", "-", "d", "o", "c", "t", "o", "r">>,
       name |-> <<"d", "o", "c", "t", "o", "r">>,
       full_command |-> <<"/", "d", "o", "c", "t", "o", "r">>,
       scope |-> <<"d", "e", "f", "a", "u", "l", "t">>,
       namespace |-> << >>,
       file_path |-> << >>,
       content |-> <<"C", "h", "e", "c", "k", " ", "i", "n", "s", "t", "a", "l", "l", "a", "t", "i", "o", "n", " ", "h", "e", "a", "l", "t", "h">>,
       description |-> <<<<"C", "h", "e", "c", "k", "s", " ", "i", "n", "s", "t", "a", "l", "l", "a", "t", "i", "o", "n", " ", "h", "e", "a", "l", "t", "h", " ", "a", "n", "d", " ", "s", "h", "o", "w", "s", " ", "u", "p", "d", "a", "t", "e", " ", "i", "n", "f", "o", "r", "m", "a", "t", "i", "o", "n">>>>,
       allowed_tools |-> << >>,
       has_bash_commands |-> FALSE, has_file_references |-> FALSE, accepts_arguments |-> FALSE],
      [id |-> <<"d", "e", "f", "a", "u", "l", "t", "-", "e", "x", "i", "t">>,
       name |-> <<"e", "x", "i", "t">>,
       full_command |-> <<"/", "e", "x", "i", "t">>,
       scope |-> <<"d", "e", "f", "a", "u", "l", "t">>,
       namespace |-> << >>,
       file_path |-> << >>,
       content |-> <<"E", "x", "i", "t", " ", "t", "h", "e", " ", "R", "E", "P", "L">>,
       description |-> <<<<"E", "x", "i", "t", " ", "t", "h", "e", " ", "C", "l", "a", "u", "d", "e", " ", "C", "o", "d", "e", " ", "R", "E", "P", "L", " ", "i", "n", "t", "e", "r", "f", "a", "c", "e">>>>,
       allowed_tools |-> << >>,
       has_bash_commands |-> FALSE, has_file_references |-> FALSE, accepts_arguments |-> FALSE],
      [id |-> <<"d", "e", "f", "a", "u", "l", "t", "-", "e", "x", "p", "o", "r", "t">>,
       name |-> <<"e", "x", "p", "o", "r", "t">>,
       full_command |-> <<"/", "e", "x", "p", "o", "r", "t">>,
       scope |-> <<"d", "e", "f", "a", "u", "l", "t">>,
       namespace |-> << >>,
       file_path |-> << >>,
       content |-> <<"E", "x", "p", "o", "r", "t", " ", "c", "o", "n", "v", "e", "r", "s", "a", "t", "i", "o", "n">>,
       description |-> <<<<"E", "x", "p", "o", "r", "t", " ", "t", "h", "e", " ", "c", "u", "r", "r", "e", "n", "t", " ", "c", "o", "n", "v", "e", "r", "s", "a", "t", "i", "o", "n", " ", "t", "o", " ", "a", " ", "f", "i", "l", "e", " ", "o", "r", " ", "c", "l", "i", "p", "b", "o", "a", "r", "d">>>>,
       allowed_tools |-> << >>,
       has_bash_commands |-> FALSE, has_file_references |-> FALSE, accepts_arguments |-> TRUE],
      [id |-> <<"d", "e", "f", "a", "u", "l", "t", "-", "h", "o", "o", "k", "s">>,
       name |-> <<"h", "o", "o", "k", "s">>,
       full_command |-> <<"/", "h", "o", "o", "k", "s">>,
       scope |-> <<"d", "e", "f", "a", "u", "l", "t">>,
       namespace |-> << >>,
       file_path |-> << >>,
       content |-> <<"M", "a", "n", "a", "g", "e", " ", "h", "o", "o", "k", " ", "c", "o", "n", "f", "i", "g", "u", "r", "a", "t", "i", "o", "n", "s">>,
       description |-> <<<<"M", "a", "n", "a", "g", "e", " ", "h", "o", "o", "k", " ", "c", "o", "n", "f", "i", "g", "u", "r", "a", "t", "i", "o", "n", "s", " ", "f", "o", "r", " ", "t", "o", "o", "l", " ", "e", "v", "e", "n", "t", "s">>>>,
       allowed_tools |-> << >>,
       has_bash_commands |-> FALSE, has_file_references |-> FALSE, accepts_arguments |-> FALSE],
      [id |-> <<"d", "e", "f", "a", "u", "l", "t", "-", "i", "d", "e">>,
       name |-> <<"i", "d", "e">>,
       full_command |-> <<"/", "i", "d", "e">>,
       scope |-> <<"d", "e", "f", "a", "u", "l", "t">>,
       namespace |-> << >>,
       file_path |-> << >>,
       content |-> <<"M", "a", "n", "a", "g", "e", " ", "I", "D", "E", " ", "i", "n", "t", "e", "g", "r", "a", "t", "i", "o", "n", "s">>,
       description |-> <<<<"M", "a", "n", "a", "g", "e", " ", "I", "D", "E", " ", "i", "n", "t", "e", "g", "r", "a", "t", "i", "o", "n", "s", " ", "a", "n", "d", " ", "s", "h", "o", "w", " ", "s", "t", "a", "t", "u", "s">>>>,
       allowed_tools |-> << >>,
       has_bash_commands |-> FALSE, has_file_references |-> FALSE, accepts_arguments |-> FALSE],
      [id |-> <<"d", "e", "f", "a", "u", "l", "t", "-", "i", "n", "s", "t", "a", "l", "l", "-", "g", "i", "t", "h", "u", "b", "-", "a", "p", "p">>,
       name |-> <<"i", "n", "s", "t", "a", "l", "l", "-", "g", "i", "t", "h", "u", "b", "-", "a", "p", "p">>,
       full_command |-> <<"/", "i", "n", "s", "t", "a", "l", "l", "-", "g", "i", "t", "h", "u", "b", "-", "a", "p", "p">>,
       scope |-> <<"d", "e", "f", "a", "u", "l", "t">>,
       namespace |-> << >>,
       file_path |-> << >>,
       content |-> <<"S", "e", "t", " ", "u", "p", " ", "C", "l", "a", "u", "d", "e", " ", "G", "i", "t", "H", "u", "b", " ", "A", "c", "t", "i", "o", "n", "s">>,
       description |-> <<<<"S", "e", "t", " ", "u", "p", " ", "C", "l", "a", "u", "d", "e", " ", "G", "i", "t", "H", "u", "b", " ", "A", "c", "t", "i", "o", "n", "s", " ", "f", "o", "r", " ", "a", " ", "r", "e", "p", "o", "s", "i", "t", "o", "r", "y">>>>,
       allowed_tools |-> << >>,
       has_bash_commands |-> FALSE, has_file_references |-> FALSE, accepts_arguments |-> FALSE],
      [id |-> <<"d", "e", "f", "a", "u", "l", "t", "-", "l", "o", "g", "i", "n">>,
       name |-> <<"l", "o", "g", "i", "n">>,
       full_command |-> <<"/", "l", "o", "g", "i", "n">>,
       scope |-> <<"d", "e", "f", "a", "u", "l", "t">>,
       namespace |-> << >>,
       file_path |-> << >>,
       content |-> <<"S", "w", "i", "t", "c", "h", " ", "A", "n", "t", "h", "r", "o", "p", "i", "c", " ", "a", "c", "c", "o", "u", "n", "t", "s">>,
       description |-> <<<<"S", "w", "i", "t", "c", "h", " ", "b", "e", "t", "w", "e", "e", "n", " ", "d", "i", "f", "f", "e", "r", "e", "n", "t", " ", "A", "n", "t", "h", "r", "o", "p", "i", "c", " ", "a", "c", "c", "o", "u", "n", "t", "s">>>>,
       allowed_tools |-> << >>,
       has_bash_commands |-> FALSE, has_file_references |-> FALSE, accepts_arguments |-> FALSE],
      [id |-> <<"d", "e", "f", "a", "u", "l", "t", "-", "l", "o", "g", "o", "u", "t">>,
       name |-> <<"l", "o", "g", "o", "u", "t">>,
       full_command |-> <<"/", "l", "o", "g", "o", "u", "t">>,
       scope |-> <<"d", "e", "f", "a", "u", "l", "t">>,
       namespace |-> << >>,
       file_path |-> << >>,
       content |-> <<"S", "i", "g", "n", " ", "o", "u", "t", " ", "f", "r", "o", "m", " ", "a", "c", "c", "o", "u", "n", "t">>,
       description |-> <<<<"S", "i", "g", "n", " ", "o", "u", "t", " ", "f", "r", "o", "m", " ", "y", "o", "u", "r", " ", "A", "n", "t", "h", "r", "o", "p", "i", "c", " ", "a", "c", "c", "o", "u", "n", "t">>>>,
       allowed_tools |-> << >>,
       has_bash_commands |-> FALSE, has_file_references |-> FALSE, accepts_arguments |-> FALSE],
      [id |-> <<"d", "e", "f", "a", "u", "l", "t", "-", "m", "c", "p">>,
       name |-> <<"m", "c", "p">>,
       full_command |-> <<"/", "m", "c", "p">>,
       scope |-> <<"d", "e", "f", "a", "u", "l", "t">>,
       namespace |-> << >>,
       file_path |-> << >>,
       content |-> <<"M", "a", "n", "a", "g", "e", " ", "M", "C", "P", " ", "s", "e", "r", "v", "e", "r", " ", "c", "o", "n", "n", "e", "c", "t", "i", "o", "n", "s">>,
       description |-> <<<<"M", "a", "n", "a", "g", "e", " ", "M", "C", "P", " ", "s", "e", "r", "v", "e", "r", " ", "c", "o", "n", "n", "e", "c", "t", "i", "o", "n", "s", " ", "a", "n", "d", " ", "O", "A", "u", "t", "h", " ", "a", "u", "t", "h", "e", "n", "t", "i", "c", "a", "t", "i", "o", "n">>>>,
       allowed_tools |-> << >>,
       has_bash_commands |-> FALSE, has_file_references |-> FALSE, accepts_arguments |-> FALSE],
      [id |-> <<"d", "e", "f", "a", "u", "l", "t", "-", "m", "e", "m", "o", "r", "y">>,
       name |-> <<"m", "e", "m", "o", "r", "y">>,
       full_command |-> <<"/", "m", "e", "m", "o", "r", "y">>,
       scope |-> <<"d", "e", "f", "a", "u", "l", "t">>,
       namespace |-> << >>,
       file_path |-> << >>,
       content |-> <<"E", "d", "i", "t", " ", "C", "L", "A", "U", "D", "E", ".", "m", "d", " ", "m", "e", "m", "o", "r", "y", " ", "f", "i", "l", "e", "s">>,
       description |-> <<<<"E", "d", "i", "t", " ", "C", "L", "A", "U", "D", "E", ".", "m", "d", " ", "m", "e", "m", "o", "r", "y", " ", "f", "i", "l", "e", "s", " ", "f", "o", "r", " ", "p", "r", "o", "j", "e", "c", "t", " ", "c", "o", "n", "t", "e", "x", "t">>>>,
       allowed_tools |-> << >>,
       has_bash_commands |-> FALSE, has_file_references |-> FALSE, accepts_arguments |-> FALSE],
      [id |-> <<"d", "e", "f", "a", "u", "l", "t", "-", "o", "u", "t", "p", "u", "t", "-", "s", "t", "y", "l", "e">>,
       name |-> <<"o", "u", "t", "p", "u", "t", "-", "s", "t", "y", "l", "e">>,
       full_command |-> <<"/", "o", "u", "t", "p", "u", "t", "-", "s", "t", "y", "l", "e">>,
       scope |-> <<"d", "e", "f", "a", "u", "l", "t">>,
       namespace |-> << >>,
       file_path |-> << >>,
       content |-> <<"S", "e", "t", " ", "o", "u", "t", "p", "u", "t", " ", "s", "t", "y", "l", "e">>,
       description |-> <<<<"S", "e", "t", " ", "t", "h", "e", " ", "o", "u", "t", "p", "u", "t", " ", "s", "t", "y", "l", "e", " ", "d", "i", "r", "e", "c", "t", "l", "y", " ", "o", "r", " ", "f", "r", "o", "m", " ", "a", " ", "s", "e", "l", "e", "c", "t", "i", "o", "n", " ", "m", "e", "n", "u">>>>,
       allowed_tools |-> << >>,
       has_bash_commands |-> FALSE, has_file_references |-> FALSE, accepts_arguments |-> TRUE],
      [id |-> <<"d", "e", "f", "a", "u", "l", "t", "-", "p", "e", "r", "m", "i", "s", "s", "i", "o", "n", "s">>,
       name |-> <<"p", "e", "r", "m", "i", "s", "s", "i", "o", "n", "s">>,
       full_command |-> <<"/", "p", "e", "r", "m", "i", "s", "s", "i", "o", "n", "s">>,
       scope |-> <<"d", "e", "f", "a", "u", "l", "t">>,
       namespace |-> << >>,
       file_path |-> << >>,
       content |-> <<"V", "i", "e", "w", " ", "o", "r", " ", "u", "p", "d", "a", "t", "e", " ", "p", "e", "r", "m", "i", "s", "s", "i", "o", "n", "s">>,
       description |-> <<<<"V", "i", "e", "w", " ", "o", "r", " ", "u", "p", "d", "a", "t", "e", " ", "t", "o", "o", "l", " ", "a", "n", "d", " ", "c", "o", "m", "m", "a", "n", "d", " ", "p", "e", "r", "m", "i", "s", "s", "i", "o", "n", "s">>>>,
       allowed_tools |-> << >>,
       has_bash_commands |-> FALSE, has_file_references |-> FALSE, accepts_arguments |-> FALSE],
      [id |-> <<"d", "e", "f", "a", "u", "l", "t", "-", "p", "l", "a", "n">>,
       name |-> <<"p", "l", "a", "n">>,
       full_command |-> <<"/", "p", "l", "a", "n">>,
       scope |-> <<"d", "e", "f", "a", "u", "l", "t">>,
       namespace |-> << >>,
       file_path |-> << >>,
       content |-> <<"E", "n", "t", "e", "r", " ", "p", "l", "a", "n", " ", "m", "o", "d", "e">>,
       description |-> <<<<"E", "n", "t", "e", "r", " ", "p", "l", "a", "n", " ", "m", "o", "d", "e", " ", "d", "i", "r", "e", "c", "t", "l", "y", " ", "f", "r", "o", "m", " ", "t", "h", "e", " ", "p", "r", "o", "m", "p", "t">>>>,
       allowed_tools |-> << >>,
       has_bash_commands |-> FALSE, has_file_references |-> FALSE, accepts_arguments |-> FALSE],
      [id |-> <<"d", "e", "f", "a", "u", "l", "t", "-", "p", "l", "u", "g", "i", "n">>,
       name |-> <<"p", "l", "u", "g", "i", "n">>,
       full_command |-> <<"/", "p", "l", "u", "g", "i", "n">>,
       scope |-> <<"d", "e", "f", "a", "u", "l", "t">>,
       namespace |-> << >>,
       file_path |-> << >>,
       content |-> <<"M", "a", "n", "a", "g", "e", " ", "C", "l", "a", "u", "d", "e", " ", "C", "o", "d", "e", " ", "p", "l", "u", "g", "i", "n", "s">>,
       description |-> <<<<"M", "a", "n", "a", "g", "e", " ", "a", "n", "d", " ", "c", "o", "n", "f", "i", "g", "u", "r", "e", " ", "C", "l", "a", "u", "d", "e", " ", "C", "o", "d", "e", " ", "p", "l", "u", "g", "i", "n", "s">>>>,
       allowed_tools |-> << >>,
       has_bash_commands |-> FALSE, has_file_references |-> FALSE, accepts_arguments |-> FALSE],
      [id |-> <<"d", "e", "f", "a", "u", "l", "t", "-", "p", "r", "-", "c", "o", "m", "m", "e", "n", "t", "s">>,
       name |-> <<"p", "r", "-", "c", "o", "m", "m", "e", "n", "t", "s">>,
       full_command |-> <<"/", "p", "r", "-", "c", "o", "m", "m", "e", "n", "t", "s">>,
       scope |-> <<"d", "e", "f", "a", "u", "l", "t">>,
       namespace |-> << >>,
       file_path |-> << >>,
       content |-> <<"V", "i", "e", "w", " ", "p", "u", "l", "l", " ", "r", "e", "q", "u", "e", "s", "t", " ", "c", "o", "m", "m", "e", "n", "t", "s">>,
       description |-> <<<<"V", "i", "e", "w", " ", "a", "n", "d", " ", "m", "a", "n", "a", "g", "e", " ", "p", "u", "l", "l", " ", "r", "e", "q", "u", "e", "s", "t", " ", "c", "o", "m", "m", "e", "n", "t", "s">>>>,
       allowed_tools |-> << >>,
       has_bash_commands |-> FALSE, has_file_references |-> FALSE, accepts_arguments |-> FALSE],
      [id |-> <<"d", "e", "f", "a", "u", "l", "t", "-", "p", "r", "i", "v", "a", "c", "y", "-", "s", "e", "t", "t", "i", "n", "g", "s">>,
       name |-> <<"p", "r", "i", "v", "a", "c", "y", "-", "s", "e", "t", "t", "i", "n", "g", "s">>,
       full_command |-> <<"/", "p", "r", "i", "v", "a", "c", "y", "-", "s", "e", "t", "t", "i", "n", "g", "s">>,
       scope |-> <<"d", "e", "f", "a", "u", "l", "t">>,
       namespace |-> << >>,
       file_path |-> << >>,
       content |-> <<"V", "i", "e", "w", " ", "a", "n", "d", " ", "u", "p", "d", "a", "t", "e", " ", "p", "r", "i", "v", "a", "c", "y", " ", "s", "e", "t", "t", "i", "n", "g", "s">>,
       description |-> <<<<"V", "i", "e", "w", " ", "a", "n", "d", " ", "u", "p", "d", "a", "t", "e", " ", "y", "o", "u", "r", " ", "p", "r", "i", "v", "a", "c", "y", " ", "s", "e", "t", "t", "i", "n", "g", "s">>>>,
       allowed_tools |-> << >>,
       has_bash_commands |-> FALSE, has_file_references |-> FALSE, accepts_arguments |-> FALSE],
      [id |-> <<"d", "e", "f", "a", "u", "l", "t", "-", "r", "e", "l", "e", "a", "s", "e", "-", "n", "o", "t", "e", "s">>,
       name |-> <<"r", "e", "l", "e", "a", "s", "e", "-", "n", "o", "t", "e", "s">>,
       full_command |-> <<"/", "r", "e", "l", "e", "a", "s", "e", "-", "n", "o", "t", "e", "s">>,
       scope |-> <<"d", "e", "f", "a", "u", "l", "t">>,
       namespace |-> << >>,
       file_path |-> << >>,
       content |-> <<"V", "i", "e", "w", " ", "r", "e", "l", "e", "a", "s", "e", " ", "n", "o", "t", "e", "s">>,
       description |-> <<<<"V", "i", "e", "w", " ", "C", "l", "a", "u", "d", "e", " ", "C", "o", "d", "e", " ", "r", "e", "l", "e", "a", "s", "e", " ", "n", "o", "t", "e", "s", " ", "a", "n", "d", " ", "c", "h", "a", "n", "g", "e", "l", "o", "g">>>>,
       allowed_tools |-> << >>,
       has_bash_commands |-> FALSE, has_file_references |-> FALSE, accepts_arguments |-> FALSE],
      [id |-> <<"d", "e", "f", "a", "u", "l", "t", "-", "r", "e", "n", "a", "m", "e">>,
       name |-> <<"r", "e", "n", "a", "m", "e">>,
       full_command |-> <<"/", "r", "e", "n", "a", "m", "e">>,
       scope |-> <<"d", "e", "f", "a", "u", "l", "t">>,
       namespace |-> << >>,
       file_path |-> << >>,
       content |-> <<"R", "e", "n", "a", "m", "e", " ", "c", "u", "r", "r", "e", "n", "t", " ", "s", "e", "s", "s", "i", "o", "n">>,
       description |-> <<<<"R", "e", "n", "a", "m", "e", " ", "t", "h", "e", " ", "c", "u", "r", "r", "e", "n", "t", " ", "s", "e", "s", "s", "i", "o", "n", " ", "f", "o", "r", " ", "e", "a", "s", "i", "e", "r", " ", "i", "d", "e", "n", "t", "i", "f", "i", "c", "a", "t", "i", "o", "n">>>>,
       allowed_tools |-> << >>,
       has_bash_commands |-> FALSE, has_file_references |-> FALSE, accepts_arguments |-> TRUE],
      [id |-> <<"d", "e", "f", "a", "u", "l", "t", "-", "r", "e", "m", "o", "t", "e", "-", "e", "n", "v">>,
       name |-> <<"r", "e", "m", "o", "t", "e", "-", "e", "n", "v">>,
       full_command |-> <<"/", "r", "e", "m", "o", "t", "e", "-", "e", "n", "v">>,
       scope |-> <<"d", "e", "f", "a", "u", "l", "t">>,
       namespace |-> << >>,
       file_path |-> << >>,
       content |-> <<"C", "o", "n", "f", "i", "g", "u", "r", "e", " ", "r", "e", "m", "o", "t", "e", " ", "s", "e", "s", "s", "i", "o", "n", " ", "e", "n", "v", "i", "r", "o", "n", "m", "e", "n", "t">>,
       description |-> <<<<"C", "o", "n", "f", "i", "g", "u", "r", "e", " ", "r", "e", "m", "o", "t", "e", " ", "s", "e", "s", "s", "i", "o", "n", " ", "e", "n", "v", "i", "r", "o", "n", "m", "e", "n", "t", " ", "(", "c", "l", "a", "u", "d", "e", ".", "a", "i", " ", "s", "u", "b", "s", "c", "r", "i", "b", "e", "r", "s", ")">>>>,
       allowed_tools |-> << >>,
       has_bash_commands |-> FALSE, has_file_references |-> FALSE, accepts_arguments |-> FALSE],
      [id |-> <<"d", "e", "f", "a", "u", "l", "t", "-", "r", "e", "s", "u", "m", "e">>,
       name |-> <<"r", "e", "s", "u", "m", "e">>,
       full_command |-> <<"/", "r", "e", "s", "u", "m", "e">>,
       scope |-> <<"d", "e", "f", "a", "u", "l", "t">>,
       namespace |-> << >>,
       file_path |-> << >>,
       content |-> <<"R", "e", "s", "u", "m", "e", " ", "a", " ", "c", "o", "n", "v", "e", "r", "s", "a", "t", "i", "o", "n">>,
       description |-> <<<<"R", "e", "s", "u", "m", "e", " ", "a", " ", "c", "o", "n", "v", "e", "r", "s", "a", "t", "i", "o", "n", " ", "b", "y", " ", "I", "D", " ", "o", "r", " ", "n", "a", "m", "e", ",", " ", "o", "r", " ", "o", "p", "e", "n", " ", "t", "h", "e", " ", "s", "e", "s", "s", "i", "o", "n", " ", "p", "i", "c", "k", "e", "r">>>>,
       allowed_tools |-> << >>,
       has_bash_commands |-> FALSE, has_file_references |-> FALSE, accepts_arguments |-> TRUE],
      [id |-> <<"d", "e", "f", "a", "u", "l", "t", "-", "r", "e", "w", "i", "n", "d">>,
       name |-> <<"r", "e", "w", "i", "n", "d">>,
       full_command |-> <<"/", "r", "e", "w", "i", "n", "d">>,
       scope |-> <<"d", "e", "f", "a", "u", "l", "t">>,
       namespace |-> << >>,
       file_path |-> << >>,
       content |-> <<"R", "e", "w", "i", "n", "d", " ", "t", "h", "e", " ", "c", "o", "n", "v", "e", "r", "s", "a", "t", "i", "o", "n">>,
       description |-> <<<<"R", "e", "w", "i", "n", "d", " ", "t", "h", "e", " ", "c", "o", "n", "v", "e", "r", "s", "a", "t", "i", "o", "n", " ", "a", "n", "d", "/", "o", "r", " ", "c", "o", "d", "e", " ", "t", "o", " ", "a", " ", "p", "r", "e", "v", "i", "o", "u", "s", " ", "s", "t", "a", "t", "e">>>>,
       allowed_tools |-> << >>,
       has_bash_commands |-> FALSE, has_file_references |-> FALSE, accepts_arguments |-> FALSE],
      [id |-> <<"d", "e", "f", "a", "u", "l", "t", "-", "s", "a", "n", "d", "b", "o", "x">>,
       name |-> <<"s", "a", "n", "d", "b", "o", "x">>,
       full_command |-> <<"/", "s", "a", "n", "d", "b", "o", "x">>,
       scope |-> <<"d", "e", "f", "a", "u", "l", "t">>,
       namespace |-> << >>,
       file_path |-> << >>,
       content |-> <<"E", "n", "a", "b", "l", "e", " ", "s", "a", "n", "d", "b", "o", "x", "e", "d", " ", "b", "a", "s", "h", " ", "t", "o", "o", "l">>,
       description |-> <<<<"E", "n", "a", "b", "l", "e", " ", "s", "a", "n", "d", "b", "o", "x", "e", "d", " ", "b", "a", "s", "h", " ", "t", "o", "o", "l", " ", "w", "i", "t", "h", " ", "f", "i", "l", "e", "s", "y", "s", "t", "e", "m", " ", "a", "n", "d", " ", "n", "e", "t", "w", "o", "r", "k", " ", "i", "s", "o", "l", "a", "t", "i", "o", "n">>>>,
       allowed_tools |-> << >>,
       has_bash_commands |-> FALSE, has_file_references |-> FALSE, accepts_arguments |-> FALSE],
      [id |-> <<"d", "e", "f", "a", "u", "l", "t", "-", "s", "e", "c", "u", "r", "i", "t", "y", "-", "r", "e", "v", "i", "e", "w">>,
       name |-> <<"s", "e", "c", "u", "r", "i", "t", "y", "-", "r", "e", "v", "i", "e", "w">>,
       full_command |-> <<"/", "s", "e", "c", "u", "r", "i", "t", "y", "-", "r", "e", "v", "i", "e", "w">>,
       scope |-> <<"d", "e", "f", "a", "u", "l", "t">>,
       namespace |-> << >>,
       file_path |-> << >>,
       content |-> <<"C", "o", "m", "p", "l", "e", "t", "e", " ", "s", "e", "c", "u", "r", "i", "t", "y", " ", "r", "e", "v", "i", "e", "w">>,
       description |-> <<<<"C", "o", "m", "p", "l", "e", "t", "e", " ", "a", " ", "s", "e", "c", "u", "r", "i", "t", "y", " ", "r", "e", "v", "i", "e", "w", " ", "o", "f", " ", "p", "e", "n", "d", "i", "n", "g", " ", "c", "h", "a", "n", "g", "e", "s", " ", "o", "n", " ", "t", "h", "e", " ", "c", "u", "r", "r", "e", "n", "t", " ", "b", "r", "a", "n", "c", "h">>>>,
       allowed_tools |-> << >>,
       has_bash_commands |-> FALSE, has_file_references |-> FALSE, accepts_arguments |-> FALSE],
      [id |-> <<"d", "e", "f", "a", "u", "l", "t", "-", "s", "t", "a", "t", "s">>,
       name |-> <<"s", "t", "a", "t", "s">>,
       full_command |-> <<"/", "s", "t", "a", "t", "s">>,
       scope |-> <<"d", "e", "f", "a", "u", "l", "t">>,
       namespace |-> << >>,
       file_path |-> << >>,
       content |-> <<"V", "i", "s", "u", "a", "l", "i", "z", "e", " ", "u", "s", "a", "g", "e", " ", "s", "t", "a", "t", "i", "s", "t", "i", "c", "s">>,
       description |-> <<<<"V", "i", "s", "u", "a", "l", "i", "z", "e", " ", "d", "a", "i", "l", "y", " ", "u", "s", "a", "g", "e", ",", " ", "s", "e", "s", "s", "i", "o", "n", " ", "h", "i", "s", "t", "o", "r", "y", ",", " ", "s", "t", "r", "e", "a", "k", "s", ",", " ", "a", "n", "d", " ", "m", "o", "d", "e", "l", " ", "p", "r", "e", "f", "e", "r", "e", "n", "c", "e", "s">>>>,
       allowed_tools |-> << >>,
       has_bash_commands |-> FALSE, has_file_references |-> FALSE, accepts_arguments |-> FALSE],
      [id |-> <<"d", "e", "f", "a", "u", "l", "t", "-", "s", "t", "a", "t", "u", "s">>,
       name |-> <<"s", "t", "a", "t", "u", "s">>,
       full_command |-> <<"/", "s", "t", "a", "t", "u", "s">>,
       scope |-> <<"d", "e", "f", "a", "u", "l", "t">>,
       namespace |-> << >>,
       file_path |-> << >>,
       content |-> <<"O", "p", "e", "n", " ", "s", "t", "a", "t", "u", "s", " ", "i", "n", "t", "e", "r", "f", "a", "c", "e">>,
       description |-> <<<<"O", "p", "e", "n", " ", "t", "h", "e", " ", "S", "e", "t", "t", "i", "n", "g", "s", " ", "i", "n", "t", "e", "r", "f", "a", "c", "e", " ", "(", "S", "t", "a", "t", "u", "s", " ", "t", "a", "b", ")", " ", "s", "h", "o", "w", "i", "n", "g", " ", "v", "e", "r", "s", "i", "o", "n", ",", " ", "m", "o", "d", "e", "l", ",", " ", "a", "c", "c", "o", "u", "n", "t", ",", " ", "a", "n", "d", " ", "c", "o", "n", "n", "e", "c", "t", "i", "v", "i", "t", "y">>>>,
       allowed_tools |-> << >>,
       has_bash_commands |-> FALSE, has_file_references |-> FALSE, accepts_arguments |-> FALSE],
      [id |-> <<"d", "e", "f", "a", "u", "l", "t", "-", "s", "t", "a", "t", "u", "s", "l", "i", "n", "e">>,
       name |-> <<"s", "t", "a", "t", "u", "s", "l", "i", "n", "e">>,
       full_command |-> <<"/", "s", "t", "a", "t", "u", "s", "l", "i", "n", "e">>,
       scope |-> <<"d", "e", "f", "a", "u", "l", "t">>,
       namespace |-> << >>,
       file_path |-> << >>,
       content |-> <<"S", "e", "t", " ", "u", "p", " ", "s", "t", "a", "t", "u", "s", " ", "l", "i", "n", "e", " ", "U", "I">>,
       description |-> <<<<"S", "e", "t", " ", "u", "p", " ", "C", "l", "a", "u", "d", "e", " ", "C", "o", "d", "e", "'", "s", " ", "s", "t", "a", "t", "u", "s", " ", "l", "i", "n", "e", " ", "U", "I", " ", "c", "o", "n", "f", "i", "g", "u", "r", "a", "t", "i", "o", "n">>>>,
       allowed_tools |-> << >>,
       has_bash_commands |-> FALSE, has_file_references |-> FALSE, accepts_arguments |-> FALSE],
      [id |-> <<"d", "e", "f", "a", "u", "l", "t", "-", "t", "e", "l", "e", "p", "o", "r", "t">>,
       name |-> <<"t", "e", "l", "e", "p", "o", "r", "t">>,
       full_command |-> <<"/", "t", "e", "l", "e", "p", "o", "r", "t">>,
       scope |-> <<"d", "e", "f", "a", "u", "l", "t">>,
       namespace |-> << >>,
       file_path |-> << >>,
       content |-> <<"R", "e", "s", "u", "m", "e", " ", "r", "e", "m", "o", "t", "e", " ", "s", "e", "s", "s", "i", "o", "n">>,
       description |-> <<<<"R", "e", "s", "u", "m", "e", " ", "a", " ", "r", "e", "m", "o", "t", "e", " ", "s", "e", "s", "s", "i", "o", "n", " ", "f", "r", "o", "m", " ", "c", "l", "a", "u", "d", "e", ".", "a", "i", " ", "b", "y", " ", "s", "e", "s", "s", "i", "o", "n", " ", "I", "D", ",", " ", "o", "r", " ", "o", "p", "e", "n", " ", "a", " ", "p", "i", "c", "k", "e", "r", " ", "(", "c", "l", "a", "u", "d", "e", ".", "a", "i", " ", "s", "u", "b", "s", "c", "r", "i", "b", "e", "r", "s", ")">>>>,
       allowed_tools |-> << >>,
       has_bash_commands |-> FALSE, has_file_references |-> FALSE, accepts_arguments |-> TRUE],
      [id |-> <<"d", "e", "f", "a", "u", "l", "t", "-", "t", "e", "r", "m", "i", "n", "a", "l", "-", "s", "e", "t", "u", "p">>,
       name |-> <<"t", "e", "r", "m", "i", "n", "a", "l", "-", "s", "e", "t", "u", "p">>,
       full_command |-> <<"/", "t", "e", "r", "m", "i", "n", "a", "l", "-", "s", "e", "t", "u", "p">>,
       scope |-> <<"d", "e", "f", "a", "u", "l", "t">>,
       namespace |-> << >>,
       file_path |-> << >>,
       content |-> <<"I", "n", "s", "t", "a", "l", "l", " ", "t", "e", "r", "m", "i", "n", "a", "l", " ", "k", "e", "y", " ", "b", "i", "n", "d", "i", "n", "g", "s">>,
       description |-> <<<<"I", "n", "s", "t", "a", "l", "l", " ", "S", "h", "i", "f", "t", "+", "E", "n", "t", "e", "r", " ", "k", "e", "y", " ", "b", "i", "n", "d", "i", "n", "g", " ", "f", "o", "r", " ", "n", "e", "w", "l", "i", "n", "e", "s", " ", "(", "V", "S", " ", "C", "o", "d", "e", ",", " ", "A", "l", "a", "c", "r", "i", "t", "t", "y", ",", " ", "Z", "e", "d", ",", " ", "W", "a", "r", "p", ")">>>>,
       allowed_tools |-> << >>,
       has_bash_commands |-> FALSE, has_file_references |-> FALSE, accepts_arguments |-> FALSE],
      [id |-> <<"d", "e", "f", "a", "u", "l", "t", "-", "t", "h", "e", "m", "e">>,
       name |-> <<"t", "h", "e", "m", "e">>,
       full_command |-> <<"/", "t", "h", "e", "m", "e">>,
       scope |-> <<"d", "e", "f", "a", "u", "l", "t">>,
       namespace |-> << >>,
       file_path |-> << >>,
       content |-> <<"C", "h", "a", "n", "g", "e", " ", "c", "o", "l", "o", "r", " ", "t", "h", "e", "m", "e">>,
       description |-> <<<<"C", "h", "a", "n", "g", "e", " ", "t", "h", "e", " ", "C", "l", "a", "u", "d", "e", " ", "C", "o", "d", "e", " ", "c", "o", "l", "o", "r", " ", "t", "h", "e", "m", "e">>>>,
       allowed_tools |-> << >>,
       has_bash_commands |-> FALSE, has_file_references |-> FALSE, accepts_arguments |-> FALSE],
      [id |-> <<"d", "e", "f", "a", "u", "l", "t", "-", "t", "o", "d", "o", "s">>,
       name |-> <<"t", "o", "d", "o", "s">>,
       full_command |-> <<"/", "t", "o", "d", "o", "s">>,
       scope |-> <<"d", "e", "f", "a", "u", "l", "t">>,
       namespace |-> << >>,
       file_path |-> << >>,
       content |-> <<"L", "i", "s", "t", " ", "c", "u", "r", "r", "e", "n", "t", " ", "T", "O", "D", "O", " ", "i", "t", "e", "m", "s">>,
       description |-> <<<<"L", "i", "s", "t", " ", "a", "n", "d", " ", "m", "a", "n", "a", "g", "e", " ", "c", "u", "r", "r", "e", "n", "t", " ", "T", "O", "D", "O", " ", "i", "t", "e", "m", "s", " ", "i", "n", " ", "t", "h", "e", " ", "s", "e", "s", "s", "i", "o", "n">>>>,
       allowed_tools |-> << >>,
       has_bash_commands |-> FALSE, has_file_references |-> FALSE, accepts_arguments |-> FALSE],
      [id |-> <<"d", "e", "f", "a", "u", "l", "t", "-", "v", "i", "m">>,
       name |-> <<"v", "i", "m">>,
       full_command |-> <<"/", "v", "i", "m">>,
       scope |-> <<"d", "e", "f", "a", "u", "l", "t">>,
       namespace |-> << >>,
       file_path |-> << >>,
       content |-> <<"E", "n", "t", "e", "r", " ", "v", "i", "m", " ", "m", "o", "d", "e">>,
       description |-> <<<<"E", "n", "t", "e", "r", " ", "v", "i", "m", " ", "m", "o", "d", "e", " ", "f", "o", "r", " ", "a", "l", "t", "e", "r", "n", "a", "t", "i", "n", "g", " ", "i", "n", "s", "e", "r", "t", " ", "a", "n", "d", " ", "c", "o", "m", "m", "a", "n", "d", " ", "m", "o", "d", "e", "s">>>>,
       allowed_tools |-> << >>,
       has_bash_commands |-> FALSE, has_file_references |-> FALSE, accepts_arguments |-> FALSE]
   >>

(***************************************************************************)
(* slash_commands_list: the built-ins, then the project commands, then the *)
(* user commands.  home is dirs::home_dir(), an Option<path>.              *)
(***************************************************************************)
CommandsDir(dir) == PathJoin(PathJoin(dir, S_dot_claude), S_commands)

\* The home directory of the user and the directory of the project the host
\* has open.
HomeDir == <<RootDir, <<"h">>>>

ProjectDir == <<RootDir, <<"p">>>>

\* A variant of Pushed in which a file that fails to load ends the loop.
Pushed_Abort(r, rest) == IF r.ok THEN <<r.cmd>> \o rest ELSE << >>

\* The match on the result r of load_command_from_file: Ok(cmd) is pushed,
\* Err is logged; rest: the records of the files that follow.
Pushed(r, rest) == (IF r.ok THEN <<r.cmd>> ELSE << >>) \o rest

\* The loop over md_files.
RECURSIVE LoadAll(_, _, _, _)
LoadAll(f, md_files, base, scope) ==
    IF Len(md_files) = 0 THEN << >>
    ELSE Pushed(load_command_from_file(f, Head(md_files), base, scope),
                LoadAll(f, Tail(md_files), base, scope))

\* The records of the files the walk found, none when the walk failed.
LoadFound(f, found, commands_dir, scope) ==
    IF found.ok THEN LoadAll(f, found.files, commands_dir, scope) ELSE << >>

\* The scan of one commands directory: nothing when it does not exist or
\* when the walk fails.
ScanCommands(f, commands_dir, scope) ==
    IF ~Exists(f, commands_dir) THEN << >>
    ELSE LoadFound(f, find_markdown_files(f, commands_dir, << >>), commands_dir, scope)

\* A variant of ProjectCommands that scans the open project when no project
\* path is given.
ProjectCommands_Fallback(f, project_path) ==
    ScanCommands(f, CommandsDir(IF IsSome(project_path) THEN PathFrom(Unwrap(project_path)) ELSE ProjectDir),
                 S_project)

ProjectCommands(f, project_path) ==
    IF IsSome(project_path)
    THEN ScanCommands(f, CommandsDir(PathFrom(Unwrap(project_path))), S_project)
    ELSE << >>

UserCommands(f, home) ==
    IF IsSome(home) THEN ScanCommands(f, CommandsDir(Unwrap(home)), S_user) ELSE << >>

\* A variant of slash_commands_list that returns the built-ins alone when
\* the commands directory of the project does not exist.
slash_commands_list_EarlyReturn(f, home, project_path) ==
    IF IsSome(project_path) /\ ~Exists(f, CommandsDir(PathFrom(Unwrap(project_path))))
    THEN create_default_commands
    ELSE create_default_commands \o ProjectCommands(f, project_path) \o UserCommands(f, home)

\* A variant of slash_commands_list with the user commands before the
\* project commands.
slash_commands_list_UserFirst(f, home, project_path) ==
    create_default_commands \o UserCommands(f, home) \o ProjectCommands(f, project_path)

\* A variant of slash_commands_list that keeps the file system of the call
\* before and lists that.
slash_commands_list_Stale(f, home, project_path) ==
    create_default_commands \o ProjectCommands(last.pre, project_path) \o UserCommands(last.pre, home)

slash_commands_list(f, home, project_path) ==
    create_default_commands \o ProjectCommands(f, project_path) \o UserCommands(f, home)

(***************************************************************************)
(* The result of a handler: Ok(cmd), Ok(commands), Ok(text) or Err(msg).   *)
(* scanned: the handler called slash_commands_list.  fs: the file system   *)
(* the handler leaves.                                                     *)
(***************************************************************************)
Err(m, f, scanned) == [ok |-> FALSE, msg |-> m, cmd |-> NoCommand, commands |-> << >>,
                       text |-> << >>, scanned |-> scanned, fs |-> f]

OkCmd(c, f, scanned) == [ok |-> TRUE, msg |-> "", cmd |-> c, commands |-> << >>,
                         text |-> << >>, scanned |-> scanned, fs |-> f]

\* Iterator::find: the first record with the identifier, as an Option.
FindById(commands, command_id) ==
    IF \E i \in 1..Len(commands) : commands[i].id = command_id
    THEN Some(commands[CHOOSE i \in 1..Len(commands) :
                          /\ commands[i].id = command_id
                          /\ \A j \in 1..(i - 1) : commands[j].id # command_id])
    ELSE None

(***************************************************************************)
(* slash_command_get.                                                      *)
(***************************************************************************)
\* A variant of InvalidCommandId that accepts a single part.
InvalidCommandId_One(command_id) == Len(Split(command_id, "-")) < 1

InvalidCommandId(command_id) == Len(Split(command_id, "-")) < 2

\* A variant of GetListing that lists with the open project.
GetListing_WithProject(f, home) == slash_commands_list(f, home, Some(PathString(ProjectDir)))

GetListing(f, home) == slash_commands_list(f, home, None)

\* ok_or_else on the record found.
FoundOr(found, f) == IF IsSome(found) THEN OkCmd(Unwrap(found), f, TRUE)
                     ELSE Err("Command not found", f, TRUE)

slash_command_get(f, home, command_id) ==
    IF InvalidCommandId(command_id) THEN Err("Invalid command ID", f, FALSE)
    ELSE FoundOr(FindById(GetListing(f, home), command_id), f)

(***************************************************************************)
(* slash_command_save.                                                     *)
(***************************************************************************)
\* A variant of SaveValidation without the check of the name.
SaveValidation_AnyName(scope, name, project_path, home) ==
    IF scope \notin {S_project, S_user} THEN "Invalid scope. Must be 'project' or 'user'"
    ELSE IF scope = S_project /\ project_path = None THEN "Project path required for project scope"
    ELSE IF scope # S_project /\ home = None THEN "Could not find home directory"
    ELSE ""

\* The checks made before any I/O: the error message, or "".
SaveValidation(scope, name, project_path, home) ==
    IF Len(name) = 0 THEN "Command name cannot be empty"
    ELSE IF scope \notin {S_project, S_user} THEN "Invalid scope. Must be 'project' or 'user'"
    ELSE IF scope = S_project /\ project_path = None THEN "Project path required for project scope"
    ELSE IF scope # S_project /\ home = None THEN "Could not find home directory"
    ELSE ""

SaveBaseDir(scope, project_path, home) ==
    IF scope = S_project THEN CommandsDir(PathFrom(Unwrap(project_path)))
    ELSE CommandsDir(Unwrap(home))

\* The directory of the file: one nested directory per ":"-separated
\* segment of the namespace.
RECURSIVE JoinAll(_, _)
JoinAll(p, segments) == IF Len(segments) = 0 THEN p
                        ELSE JoinAll(PathJoin(p, Head(segments)), Tail(segments))

SaveDir(base_dir, namespace) ==
    IF IsSome(namespace) THEN JoinAll(base_dir, Split(Unwrap(namespace), ":")) ELSE base_dir

RECURSIVE ToolLines(_)
ToolLines(allowed_tools) ==
    IF Len(allowed_tools) = 0 THEN << >>
    ELSE <<SPACE, SPACE, "-", SPACE>> \o Head(allowed_tools) \o <<NL>> \o ToolLines(Tail(allowed_tools))

\* The text written: the frontmatter, when there is metadata, and the body.
FullContent(content, description, allowed_tools) ==
    (IF IsSome(description) \/ Len(allowed_tools) # 0
     THEN DELIM \o <<NL>>
          \o (IF IsSome(description)
              THEN S_description_key \o <<":", SPACE>> \o Unwrap(description) \o <<NL>>
              ELSE << >>)
          \o (IF Len(allowed_tools) # 0
              THEN S_allowed_tools_key \o <<":", NL>> \o ToolLines(allowed_tools)
              ELSE << >>)
          \o DELIM \o <<NL, NL>>
     ELSE << >>)
    \o content

\* The steps of a save, each on the result of the step before it: the
\* file is loaded when it is written (loaded), written when its directory
\* is made (written), in the directory made for the namespace (made).
SaveLoaded(loaded, f) ==
    IF ~loaded.ok THEN Err("Failed to load saved command", f, FALSE)
    ELSE OkCmd(loaded.cmd, f, FALSE)

SaveWritten(written, file_path, base_dir, scope) ==
    IF ~written.ok THEN Err("Failed to write command file", written.fs, FALSE)
    ELSE SaveLoaded(load_command_from_file(written.fs, file_path, base_dir, scope), written.fs)

SaveMade(made, file_path, base_dir, scope, full_content) ==
    IF ~made.ok THEN Err("Failed to create directories", made.fs, FALSE)
    ELSE SaveWritten(write(made.fs, file_path, full_content), file_path, base_dir, scope)

SaveIn(f, dir, base_dir, scope, name, full_content) ==
    SaveMade(create_dir_all(f, dir), PathJoin(dir, name \o <<".">> \o S_md), base_dir, scope, full_content)

SaveUnder(f, base_dir, scope, name, namespace, full_content) ==
    SaveIn(f, SaveDir(base_dir, namespace), base_dir, scope, name, full_content)

slash_command_save(f, home, scope, name, namespace, content, description, allowed_tools, project_path) ==
    IF SaveValidation(scope, name, project_path, home) # ""
    THEN Err(SaveValidation(scope, name, project_path, home), f, FALSE)
    ELSE SaveUnder(f, SaveBaseDir(scope, project_path, home), scope, name, namespace,
                   FullContent(content, description, allowed_tools))

(***************************************************************************)
(* slash_command_delete.                                                   *)
(***************************************************************************)
\* A variant of ProjectPathRequired that tests the prefix "project:".
ProjectPathRequired_Colon(command_id, project_path) ==
    StartsWith(command_id, S_project \o <<":">>) /\ project_path = None

ProjectPathRequired(command_id, project_path) ==
    StartsWith(command_id, S_project_dash) /\ project_path = None

\* A variant of CleanUp that removes the parent directory with all it holds.
CleanUp_All(f, file_path) ==
    IF IsSome(Parent(file_path))
    THEN [f EXCEPT !.dirs = {d \in @ : ~IsPrefix(Unwrap(Parent(file_path)), d)},
                   !.files = [q \in {q \in DOMAIN @ : ~IsPrefix(Unwrap(Parent(file_path)), q)} |-> @[q]]]
    ELSE f

\* The cleanup after the file is removed, from the file's parent upward.
CleanUp(f, file_path) ==
    IF IsSome(Parent(file_path)) THEN remove_empty_dirs(f, Unwrap(Parent(file_path))) ELSE f

\* The result of the delete once remove_file has run (removed).
DeleteRemoved(removed, f, command) ==
    IF ~removed.ok THEN Err("Failed to delete command file", f, TRUE)
    ELSE [ok |-> TRUE, msg |-> "", cmd |-> command, commands |-> << >>,
          text |-> <<"D","e","l","e","t","e","d"," ","c","o","m","m","a","n","d",":"," ">>
                   \o command.full_command,
          scanned |-> TRUE, fs |-> CleanUp(removed.fs, PathFrom(command.file_path))]

DeleteCommand(f, command) == DeleteRemoved(remove_file(f, PathFrom(command.file_path)), f, command)

\* ok_or_else on the record found, then the removal of its file.
DeleteFound(found, f) ==
    IF ~IsSome(found) THEN Err("Command not found", f, TRUE)
    ELSE DeleteCommand(f, Unwrap(found))

slash_command_delete(f, home, command_id, project_path) ==
    IF ProjectPathRequired(command_id, project_path)
    THEN Err("Project path required to delete project commands", f, FALSE)
    ELSE DeleteFound(FindById(slash_commands_list(f, home, project_path), command_id), f)

(***************************************************************************)
(* The file systems a behaviour starts from, and the arguments the host    *)
(* passes.                                                                 *)
(***************************************************************************)
UserRoot == CommandsDir(HomeDir)

ProjectRoot == CommandsDir(ProjectDir)

N_a == <<"a">>

N_b == <<"b">>

N_x_md == <<"x", ".", "m", "d">>

N_y_md == <<"y", ".", "m", "d">>

N_a_x_md == <<"a", "-", "x", ".", "m", "d">>

N_hidden_dir == <<".", "s">>

N_hidden_md == <<".", "x", ".", "m", "d">>

N_txt == <<"n", ".", "t", "x", "t">>

Utf8(t) == [utf8 |-> TRUE, text |-> t]

NotUtf8 == [utf8 |-> FALSE, text |-> << >>]

T_plain == <<"a">>

\* A file with a header and no blank line before the body.
T_header == DELIM \o <<NL>> \o S_description_key \o <<":", SPACE, "d", NL>> \o DELIM \o <<NL, "b", NL>>

\* A file whose body holds the three markers.
T_markers == <<"!", BACKTICK, "l", "s", BACKTICK, SPACE, "@", "f", SPACE>> \o S_ARGUMENTS \o <<NL>>

\* A file whose header holds the three markers and whose body holds none.
T_header_markers ==
    DELIM \o <<NL>> \o S_description_key
    \o <<":", SPACE, "d", SPACE, "@", SPACE>> \o S_ARGUMENTS \o <<SPACE, "!", BACKTICK, NL>>
    \o DELIM \o <<NL, "b", NL>>

\* A file with an opening delimiter line and no closing one.
T_unclosed == DELIM \o <<NL>> \o S_description_key \o <<":", SPACE, "d", NL, "b", NL>>

\* A file whose block between the delimiter lines is no mapping.
T_unparsed == DELIM \o <<NL, "@", "d", NL>> \o DELIM \o <<NL, "b", NL>>

N_a_md == <<"a", ".", "m", "d">>

N_b_md == <<"b", ".", "m", "d">>

N_c_md == <<"c", ".", "m", "d">>

Ancestors(p) == {SubSeq(p, 1, n) : n \in 1..(Len(p) - 1)}

\* The file system holding the files of function files, the directories
\* dirs and every ancestor of them.
Tree(files, dirs, ro, noread) ==
    [dirs   |-> {<<RootDir>>, HomeDir, ProjectDir} \cup dirs
                \cup UNION {Ancestors(p) : p \in dirs \cup DOMAIN files},
     files  |-> files,
     ro     |-> ro,
     noread |-> noread,
     rev    |-> FALSE]

EmptyFiles == [p \in {} |-> NotUtf8]

\* No commands directory at all.
WorldBare == Tree(EmptyFiles, {}, {}, {})

\* Commands in both roots: the same name in each, a nested one, and a file
\* that cannot be read as text.
WorldMixed ==
    Tree((UserRoot \o <<N_x_md>>) :> Utf8(T_plain)
         @@ (UserRoot \o <<N_a, N_x_md>>) :> Utf8(T_header)
         @@ (ProjectRoot \o <<N_x_md>>) :> Utf8(T_markers)
         @@ (ProjectRoot \o <<N_y_md>>) :> NotUtf8,
         {}, {}, {})

\* One command in each root, each the only file of a nested namespace.
WorldNested ==
    Tree((ProjectRoot \o <<N_a, N_x_md>>) :> Utf8(T_plain)
         @@ (UserRoot \o <<N_a, N_b, N_x_md>>) :> Utf8(T_plain),
         {}, {}, {})

\* Hidden entries, a file that is no markdown file, and a project tree with
\* a directory that cannot be enumerated.
WorldHidden ==
    Tree((UserRoot \o <<N_hidden_dir, N_x_md>>) :> Utf8(T_plain)
         @@ (UserRoot \o <<N_hidden_md>>) :> Utf8(T_plain)
         @@ (UserRoot \o <<N_txt>>) :> Utf8(T_plain)
         @@ (UserRoot \o <<N_y_md>>) :> Utf8(T_plain)
         @@ (ProjectRoot \o <<N_x_md>>) :> Utf8(T_plain)
         @@ (ProjectRoot \o <<N_a, N_x_md>>) :> Utf8(T_plain),
         {}, {}, {ProjectRoot \o <<N_a>>})

\* Write-protected directories.
WorldReadOnly ==
    Tree((UserRoot \o <<N_x_md>>) :> Utf8(T_plain)
         @@ (ProjectRoot \o <<N_a, N_x_md>>) :> Utf8(T_plain),
         {}, {UserRoot, ProjectRoot}, {})

\* Two user files whose paths differ only in "/" against "-".
WorldDash ==
    Tree((UserRoot \o <<N_a_x_md>>) :> Utf8(T_plain)
         @@ (UserRoot \o <<N_a, N_x_md>>) :> Utf8(T_header),
         {ProjectRoot}, {}, {})

\* User files with the three kinds of header.
WorldTexts ==
    Tree((UserRoot \o <<N_a_md>>) :> Utf8(T_header_markers)
         @@ (UserRoot \o <<N_b_md>>) :> Utf8(T_unclosed)
         @@ (UserRoot \o <<N_c_md>>) :> Utf8(T_unparsed),
         {}, {}, {})

\* Commands in the user root and no commands directory in the project.
WorldUserOnly == Tree((UserRoot \o <<N_x_md>>) :> Utf8(T_header), {}, {}, {})

\* Commands in the project root and no commands directory in the home
\* directory.
WorldProjectOnly == Tree((ProjectRoot \o <<N_x_md>>) :> Utf8(T_header), {}, {}, {})

\* The project path of a list or a delete: none, the open project, or the
\* home directory opened as a project, so that one commands directory is
\* reached as the project root and as the user root.
ProjectPaths == {None, Some(PathString(ProjectDir)), Some(PathString(HomeDir))}

\* The project path of a save.
SaveProjectPaths == {None, Some(PathString(ProjectDir))}

Scopes == {S_project, S_user, S_default}

Names == {<< >>, <<"x">>, <<SEP, "x">>, <<".", "x">>, <<"a", SEP, "x">>}

Namespaces == {None, Some(N_a), Some(<<"a", ":", "b">>), Some(<< >>)}

Contents == {T_plain}

Descriptions == {None, Some(<< >>), Some(<<"d">>)}

ToolLists == {<< >>, << <<"T">> >>}

\* The arguments of a save: every combination of a non-empty or absent
\* description and a tool list for a plain name, a valid scope and a
\* namespace of at most one segment; one choice of metadata for the other
\* names and scopes; a user command with no metadata for every namespace;
\* a user command with an empty description; a user command with a hidden
\* name and one whose name holds a separator.
SaveInputs ==
    {a \in [scope : Scopes, name : Names, namespace : Namespaces, content : Contents,
            description : Descriptions, allowed_tools : ToolLists, project_path : SaveProjectPaths] :
        \/ /\ a.name = <<"x">> /\ a.scope # S_default /\ a.namespace \in {None, Some(N_a)}
           /\ a.description # Some(<< >>)
           /\ a.project_path = (IF a.scope = S_user THEN None ELSE Some(PathString(ProjectDir)))
        \/ /\ a.description = Some(<<"d">>) /\ a.allowed_tools = << >>
           /\ \/ a.namespace = None
              \/ a.namespace = Some(N_a) /\ a.name = << >> /\ a.scope = S_user /\ a.project_path = None
           /\ a.name \in {<< >>, <<"x">>, <<SEP, "x">>}
        \/ /\ a.name = <<"x">> /\ a.scope = S_user /\ a.project_path = None
           /\ a.description = None /\ a.allowed_tools = << >>
        \/ /\ a.name = <<"x">> /\ a.scope = S_user /\ a.project_path = None
           /\ a.namespace = None /\ a.description = Some(<< >>)
        \/ /\ a.name \in {<<".", "x">>, <<"a", SEP, "x">>} /\ a.scope = S_user /\ a.project_path = None
           /\ a.namespace = None /\ a.description = None /\ a.allowed_tools = << >>}

\* The records backed by a file, under every project argument.
FileRecords(f, home) ==
    ProjectCommands(f, Some(PathString(ProjectDir))) \o ProjectCommands(f, Some(PathString(HomeDir)))
    \o UserCommands(f, home)

\* Identifiers passed to get and delete: those of the listed files, one of
\* the first and the last of the built-in table, one with no "-", and two
\* that name no record.
IdsOf(records) == {records[i].id : i \in 1..Len(records)}

CommandIds(f, home) ==
    IdsOf(FileRecords(f, home))
    \cup {create_default_commands[1].id, create_default_commands[Len(create_default_commands)].id,
          <<"x">>, S_project_dash \o <<"x">>, S_user \o <<"-", "x">>}

(***************************************************************************)
(* The state: the file system, the home directory of the process, the      *)
(* last call (its arguments, the file system it found and its outcome)     *)
(* and the number of calls made.                                           *)
(***************************************************************************)
NoArgs == [scope |-> << >>, name |-> << >>, namespace |-> None, content |-> << >>,
           description |-> None, allowed_tools |-> << >>, project_path |-> None,
           command_id |-> << >>]

Outcome(r) == [ok |-> r.ok, msg |-> r.msg, cmd |-> r.cmd, commands |-> r.commands,
               text |-> r.text, scanned |-> r.scanned]

NoOutcome == [ok |-> TRUE, msg |-> "", cmd |-> NoCommand, commands |-> << >>,
              text |-> << >>, scanned |-> FALSE]

\* No save and no delete is under way.
NoRace == [save |-> NoArgs, command_id |-> << >>, start |-> WorldBare,
           spc |-> "idle", sres |-> [ok |-> TRUE, msg |-> ""],
           dpc |-> "idle", dcmd |-> NoCommand, ddir |-> None, dres |-> [ok |-> TRUE, msg |-> ""],
           trace |-> << >>]

\* The states before the first call: a file system, the order in which it
\* enumerates a directory (where a directory holds more than one entry),
\* and whether the process has a home directory.
Starts ==
    {[fs |-> WorldBare, home |-> Some(HomeDir)],
     [fs |-> WorldNested, home |-> Some(HomeDir)],
     [fs |-> WorldReadOnly, home |-> Some(HomeDir)],
     [fs |-> WorldUserOnly, home |-> Some(HomeDir)],
     [fs |-> WorldTexts, home |-> Some(HomeDir)],
     [fs |-> WorldProjectOnly, home |-> Some(HomeDir)],
     [fs |-> WorldMixed, home |-> None]}
    \cup {[fs |-> [w EXCEPT !.rev = r], home |-> Some(HomeDir)] :
            w \in {WorldMixed, WorldHidden, WorldDash}, r \in BOOLEAN}

Init ==
    /\ \E s \in Starts : fs = s.fs /\ env = [home |-> s.home]
    /\ last = [op |-> "none", args |-> NoArgs, pre |-> fs, res |-> NoOutcome]
    /\ ops = 0
    /\ race = NoRace

\* One call of a handler: r is its result and the file system it leaves.
Call(op, args, r) ==
    /\ ops < MaxOps
    /\ last' = [op |-> op, args |-> args, pre |-> fs, res |-> Outcome(r)]
    /\ fs' = r.fs
    /\ ops' = ops + 1
    /\ UNCHANGED <<env, race>>

\* The result of slash_commands_list, which is always Ok.
Listed(commands, f) == [ok |-> TRUE, msg |-> "", cmd |-> NoCommand, commands |-> commands,
                        text |-> << >>, scanned |-> TRUE, fs |-> f]

List ==
    \E project_path \in ProjectPaths :
        Call("list", [NoArgs EXCEPT !.project_path = project_path],
             Listed(slash_commands_list(fs, env.home, project_path), fs))

Get ==
    \E command_id \in CommandIds(fs, env.home) :
        Call("get", [NoArgs EXCEPT !.command_id = command_id],
             slash_command_get(fs, env.home, command_id))

Save ==
    \E a \in SaveInputs :
        Call("save",
             [NoArgs EXCEPT !.scope = a.scope, !.name = a.name, !.namespace = a.namespace,
                            !.content = a.content, !.description = a.description,
                            !.allowed_tools = a.allowed_tools, !.project_path = a.project_path],
             slash_command_save(fs, env.home, a.scope, a.name, a.namespace, a.content,
                                a.description, a.allowed_tools, a.project_path))

\* The home directory is passed as the project for project identifiers only.
Delete ==
    \E command_id \in CommandIds(fs, env.home) :
    \E project_path \in {p \in ProjectPaths :
                             p = Some(PathString(HomeDir)) => StartsWith(command_id, S_project_dash)} :
        Call("delete", [NoArgs EXCEPT !.command_id = command_id, !.project_path = project_path],
             slash_command_delete(fs, env.home, command_id, project_path))

Next == List \/ Get \/ Save \/ Delete

Spec == Init /\ [][Next]_vars

(***************************************************************************)
(* One slash_command_save and one slash_command_delete of the same command *)
(* path, called at the same time.  The handlers take no lock, so the steps  *)
(* of one (its calls of std::fs) run between the steps of the other.  A     *)
(* step of the model is one call of std::fs with the computation up to the  *)
(* next one; the listing of the delete and each level of remove_empty_dirs  *)
(* are taken as one step each, which leaves out interleavings and adds      *)
(* none.                                                                   *)
(***************************************************************************)
\* The arguments of the save: a user command x, with or without a namespace
\* and a description.
RaceSaves ==
    {a \in SaveInputs : /\ a.scope = S_user /\ a.name = <<"x">> /\ a.project_path = None
                        /\ a.namespace \in {None, Some(N_a)}
                        /\ a.description \in {None, Some(<<"d">>)} /\ a.allowed_tools = << >>}

\* The file of the save and the identifier that a listing gives it.
RaceTarget(home, a) ==
    PathJoin(SaveDir(SaveBaseDir(a.scope, a.project_path, home), a.namespace), a.name \o <<".">> \o S_md)

RaceId(home, a) == a.scope \o <<"-">> \o ReplaceChar(PathString(RaceTarget(home, a)), SEP, "-")

InitRace ==
    /\ \E s \in {s \in Starts : IsSome(s.home)}, a \in RaceSaves :
           /\ fs = s.fs
           /\ env = [home |-> s.home]
           /\ race = [NoRace EXCEPT !.save = [NoArgs EXCEPT !.scope = a.scope, !.name = a.name,
                                                             !.namespace = a.namespace, !.content = a.content,
                                                             !.description = a.description,
                                                             !.allowed_tools = a.allowed_tools,
                                                             !.project_path = a.project_path],
                                    !.command_id = RaceId(s.home, a), !.start = s.fs,
                                    !.spc = "mkdir", !.dpc = "list"]
    /\ last = [op |-> "none", args |-> NoArgs, pre |-> fs, res |-> NoOutcome]
    /\ ops = 0

\* The save moves to pc with the result so far and leaves the file system f.
SaveGoes(pc, ok, msg, f) ==
    /\ race' = [race EXCEPT !.spc = pc, !.sres = [ok |-> ok, msg |-> msg], !.trace = Append(@, "save")]
    /\ fs' = f
    /\ UNCHANGED <<env, last, ops>>

SaveAfterMkdir(made) ==
    IF ~made.ok THEN SaveGoes("done", FALSE, "Failed to create directories", made.fs)
    ELSE SaveGoes("write", TRUE, "", made.fs)

\* The validation and fs::create_dir_all.
RaceSaveMkdir ==
    /\ race.spc = "mkdir"
    /\ IF SaveValidation(race.save.scope, race.save.name, race.save.project_path, env.home) # ""
       THEN SaveGoes("done", FALSE,
                     SaveValidation(race.save.scope, race.save.name, race.save.project_path, env.home), fs)
       ELSE SaveAfterMkdir(create_dir_all(fs, SaveDir(SaveBaseDir(race.save.scope, race.save.project_path,
                                                                 env.home),
                                                     race.save.namespace)))

SaveAfterWrite(written) ==
    IF ~written.ok THEN SaveGoes("done", FALSE, "Failed to write command file", written.fs)
    ELSE SaveGoes("load", TRUE, "", written.fs)

\* fs::write.
RaceSaveWrite ==
    /\ race.spc = "write"
    /\ SaveAfterWrite(write(fs, RaceTarget(env.home, race.save),
                            FullContent(race.save.content, race.save.description, race.save.allowed_tools)))

SaveAfterLoad(loaded) ==
    IF ~loaded.ok THEN SaveGoes("done", FALSE, "Failed to load saved command", fs)
    ELSE SaveGoes("done", TRUE, "", fs)

\* load_command_from_file.
RaceSaveLoad ==
    /\ race.spc = "load"
    /\ SaveAfterLoad(load_command_from_file(fs, RaceTarget(env.home, race.save),
                                            SaveBaseDir(race.save.scope, race.save.project_path, env.home),
                                            race.save.scope))

\* The delete moves to pc with the record it found, the directory to clean
\* up next and the result so far, and leaves the file system f.
DeleteGoes(pc, command, dir, ok, msg, f) ==
    /\ race' = [race EXCEPT !.dpc = pc, !.dcmd = command, !.ddir = dir,
                            !.dres = [ok |-> ok, msg |-> msg], !.trace = Append(@, "delete")]
    /\ fs' = f
    /\ UNCHANGED <<env, last, ops>>

DeleteAfterList(found) ==
    IF ~IsSome(found) THEN DeleteGoes("done", NoCommand, None, FALSE, "Command not found", fs)
    ELSE DeleteGoes("remove", Unwrap(found), None, TRUE, "", fs)

\* The test of the identifier, slash_commands_list and find.
RaceDeleteList ==
    /\ race.dpc = "list"
    /\ IF ProjectPathRequired(race.command_id, None)
       THEN DeleteGoes("done", NoCommand, None, FALSE, "Project path required to delete project commands", fs)
       ELSE DeleteAfterList(FindById(slash_commands_list(fs, env.home, None), race.command_id))

DeleteAfterRemove(removed, parent) ==
    IF ~removed.ok THEN DeleteGoes("done", race.dcmd, None, FALSE, "Failed to delete command file", removed.fs)
    ELSE IF IsSome(parent) THEN DeleteGoes("cleanup", race.dcmd, parent, TRUE, "", removed.fs)
    ELSE DeleteGoes("done", race.dcmd, None, TRUE, "", removed.fs)

\* fs::remove_file.
RaceDeleteRemove ==
    /\ race.dpc = "remove"
    /\ DeleteAfterRemove(remove_file(fs, PathFrom(race.dcmd.file_path)),
                         Parent(PathFrom(race.dcmd.file_path)))

\* One level of remove_empty_dirs once fs::remove_dir has run (removed):
\* the file system left and the directory of the next level, if any.
LevelRemoved(removed, dir) ==
    IF ~removed.ok THEN [fs |-> removed.fs, next |-> None]
    ELSE [fs |-> removed.fs, next |-> Parent(dir)]

\* A variant of CleanupLevel that never goes on to the parent.
CleanupLevel_Once(f, dir) ==
    IF ~Exists(f, dir) THEN [fs |-> f, next |-> None]
    ELSE IF ~read_dir(f, dir).ok THEN [fs |-> f, next |-> None]
    ELSE IF Len(read_dir(f, dir).entries) # 0 THEN [fs |-> f, next |-> None]
    ELSE [fs |-> remove_dir(f, dir).fs, next |-> None]

\* One level of remove_empty_dirs.
CleanupLevel(f, dir) ==
    IF ~Exists(f, dir) THEN [fs |-> f, next |-> None]
    ELSE IF ~read_dir(f, dir).ok THEN [fs |-> f, next |-> None]
    ELSE IF Len(read_dir(f, dir).entries) # 0 THEN [fs |-> f, next |-> None]
    ELSE LevelRemoved(remove_dir(f, dir), dir)

DeleteAfterLevel(level) ==
    IF IsSome(level.next) THEN DeleteGoes("cleanup", race.dcmd, level.next, TRUE, "", level.fs)
    ELSE DeleteGoes("done", race.dcmd, None, TRUE, "", level.fs)

\* remove_empty_dirs on the next directory.
RaceDeleteCleanup ==
    /\ race.dpc = "cleanup"
    /\ DeleteAfterLevel(CleanupLevel(fs, Unwrap(race.ddir)))

NextRace ==
    \/ RaceSaveMkdir \/ RaceSaveWrite \/ RaceSaveLoad
    \/ RaceDeleteList \/ RaceDeleteRemove \/ RaceDeleteCleanup

SpecRace == InitRace /\ [][NextRace]_vars

(***************************************************************************)
(* Vocabulary of the properties.                                           *)
(***************************************************************************)
\* The commands directory that the last call used for a scope.
RootOf(scope) == IF scope = S_project THEN CommandsDir(PathFrom(Unwrap(last.args.project_path)))
                 ELSE UserRoot

\* The markdown files below root that no hidden name hides.
VisibleMd(f, root) ==
    {p \in DOMAIN f.files :
        /\ IsPrefix(root, p)
        /\ Extension(p) = Some(S_md)
        /\ \A i \in (Len(root) + 1)..Len(p) : p[i][1] # "."}

\* The walk below root reads every directory it enters.
WalkReads(f, root) ==
    /\ root \notin DOMAIN f.files
    /\ \A d \in f.noread : ~(IsPrefix(root, d) /\ \A i \in (Len(root) + 1)..Len(d) : d[i][1] # ".")

\* The visible markdown files below root that can be read as text.
Loadable(f, root) == {p \in VisibleMd(f, root) : f.files[p].utf8}

\* The records of a sequence with a given scope.
OfScope(commands, scope) == SelectSeq(commands, LAMBDA c : c.scope = scope)

Builtins == Len(create_default_commands)

(***************************************************************************)
(* C1.  slash_command_delete on the only file of a nested namespace        *)
(* directory.                                                              *)
(***************************************************************************)
\* The last call deleted, with success, a file that lay at least one
\* directory below its commands root and was the only entry of its
\* directory, on a file system with no write-protected directory.
C1_DeletedOnlyNestedFile ==
    /\ last.op = "delete" /\ last.res.ok
    /\ last.pre.ro = {}
    /\ LET p    == PathFrom(last.res.cmd.file_path)
           root == RootOf(last.res.cmd.scope)
       IN  /\ IsPrefix(root, p)
           /\ Len(p) > Len(root) + 1
           /\ Entries(last.pre, SubSeq(p, 1, Len(p) - 1)) = {p}

\* C1: after slash_command_delete succeeds on the only command file of a
\* nested namespace directory, the file and its emptied directory are gone,
\* and the commands root and every directory above it still exist.
C1_DeleteKeepsCommandsRoot ==
    C1_DeletedOnlyNestedFile =>
        LET p    == PathFrom(last.res.cmd.file_path)
            root == RootOf(last.res.cmd.scope)
        IN  /\ p \notin DOMAIN fs.files
            /\ SubSeq(p, 1, Len(p) - 1) \notin fs.dirs
            /\ root \in fs.dirs
            /\ Ancestors(root) \subseteq fs.dirs

(***************************************************************************)
(* C2.  Save, then load.                                                   *)
(***************************************************************************)
\* C2: the record of a successful slash_command_save has the description,
\* the tool list and the body text that were saved.
C2_SaveRoundTrip ==
    (last.op = "save" /\ last.res.ok) =>
        /\ last.res.cmd.description = last.args.description
        /\ last.res.cmd.allowed_tools = last.args.allowed_tools
        /\ last.res.cmd.content = last.args.content

(***************************************************************************)
(* C3.  The order of a listing.                                            *)
(***************************************************************************)
\* The files a listing must show for a scope: the loadable files of the
\* scope's root, when that root is scanned and the walk reads it.
Expected(f, scope, scanned) ==
    IF scanned /\ WalkReads(f, RootOf(scope)) THEN Loadable(f, RootOf(scope)) ELSE {}

\* C3: a listing is the built-in table, then the project records, then the
\* user records; each group holds one record for each loadable file of its
\* root and no other, so nothing is merged or dropped across the groups.
C3_ListOrder ==
    last.op = "list" =>
        LET cs == last.res.commands
            np == Cardinality(Expected(last.pre, S_project, IsSome(last.args.project_path)))
            nu == Cardinality(Expected(last.pre, S_user, IsSome(env.home)))
        IN  /\ Len(cs) = Builtins + np + nu
            /\ SubSeq(cs, 1, Builtins) = create_default_commands
            /\ \A i \in (Builtins + 1)..(Builtins + np) : cs[i].scope = S_project
            /\ \A i \in (Builtins + np + 1)..Len(cs) : cs[i].scope = S_user
            /\ {PathFrom(cs[i].file_path) : i \in (Builtins + 1)..(Builtins + np)}
                   = Expected(last.pre, S_project, IsSome(last.args.project_path))
            /\ {PathFrom(cs[i].file_path) : i \in (Builtins + np + 1)..Len(cs)}
                   = Expected(last.pre, S_user, IsSome(env.home))

\* A listing holds a project record and a user record of the same name
\* from two files, or holds both for one file.
C3_Witness ==
    /\ last.op = "list"
    /\ \E i, j \in 1..Len(last.res.commands) :
           /\ last.res.commands[i].scope = S_project
           /\ last.res.commands[j].scope = S_user
           /\ last.res.commands[i].full_command = last.res.commands[j].full_command
           /\ last.res.commands[i].file_path = last.res.commands[j].file_path

(***************************************************************************)
(* C4.  A listing with no project path.                                    *)
(***************************************************************************)
\* C4: slash_commands_list(None) returns the built-in table, identifier by
\* identifier in table order, followed by user records only.
C4_ListWithoutProject ==
    (last.op = "list" /\ last.args.project_path = None) =>
        LET cs == last.res.commands
        IN  /\ Len(cs) >= Builtins
            /\ \A i \in 1..Builtins : cs[i].id = create_default_commands[i].id
            /\ \A i \in 1..Builtins : cs[i].scope = S_default
            /\ \A i \in (Builtins + 1)..Len(cs) : cs[i].scope = S_user
            /\ \A i \in 1..Len(cs) : cs[i].scope # S_project

\* A listing with no project path, of a file system whose project root
\* holds loadable commands, that shows user records.
C4_Witness ==
    /\ last.op = "list" /\ last.args.project_path = None
    /\ Loadable(last.pre, ProjectRoot) # {}
    /\ Len(last.res.commands) > Builtins

(***************************************************************************)
(* C5.  slash_command_get and project commands.                            *)
(***************************************************************************)
\* The identifiers of the project records of the listings with a project.
ProjectIds(f, home) ==
    UNION {LET cs == OfScope(slash_commands_list(f, home, project_path), S_project)
           IN  {cs[i].id : i \in 1..Len(cs)} : project_path \in ProjectPaths \ {None}}

\* C5: slash_command_get of the identifier of a project-scoped record fails
\* with the not-found error.
C5_GetNeverProject ==
    (last.op = "get" /\ last.args.command_id \in ProjectIds(last.pre, env.home)) =>
        /\ ~last.res.ok
        /\ last.res.msg = "Command not found"

C5_Witness ==
    /\ last.op = "get"
    /\ last.args.command_id \in ProjectIds(last.pre, env.home)
    /\ ~last.res.ok

(***************************************************************************)
(* C6.  slash_command_get.                                                 *)
(***************************************************************************)
\* The indices of the records of a sequence with a given identifier.
Matches(commands, command_id) == {i \in 1..Len(commands) : commands[i].id = command_id}

\* C6: an identifier with no "-" is rejected as invalid before any scan;
\* any other identifier yields the first record of the listing without a
\* project that bears it, or the not-found error when there is none.
C6_GetContract ==
    last.op = "get" =>
        LET id == last.args.command_id
            cs == slash_commands_list(last.pre, env.home, None)
            m  == Matches(cs, id)
        IN  IF \A i \in 1..Len(id) : id[i] # "-"
            THEN ~last.res.ok /\ last.res.msg = "Invalid command ID" /\ ~last.res.scanned
            ELSE IF m = {}
            THEN ~last.res.ok /\ last.res.msg = "Command not found"
            ELSE /\ last.res.ok
                 /\ \E i \in m : (\A j \in m : i <= j) /\ last.res.cmd = cs[i]

\* A get answered with the first of two records that bear the identifier.
C6_Witness ==
    /\ last.op = "get" /\ last.res.ok
    /\ Cardinality(Matches(slash_commands_list(last.pre, env.home, None), last.args.command_id)) > 1

(***************************************************************************)
(* C7.  slash_command_delete of a project identifier with no project path. *)
(***************************************************************************)
\* C7: the call fails with the project-path-required error, lists nothing
\* and leaves the file system as it was.
C7_DeleteNeedsProjectPath ==
    (/\ last.op = "delete"
     /\ StartsWith(last.args.command_id, S_project_dash)
     /\ last.args.project_path = None) =>
        /\ ~last.res.ok
        /\ last.res.msg = "Project path required to delete project commands"
        /\ ~last.res.scanned
        /\ fs = last.pre

\* Such a call, for the identifier of a project command that exists.
C7_Witness ==
    /\ last.op = "delete"
    /\ last.args.project_path = None
    /\ last.args.command_id \in ProjectIds(last.pre, env.home)
    /\ ~last.res.ok

(***************************************************************************)
(* C8.  The validation of slash_command_save.                              *)
(***************************************************************************)
C8_Rejected ==
    /\ last.op = "save"
    /\ \/ last.args.name = << >>
       \/ last.args.scope \notin {S_project, S_user}
       \/ last.args.scope = S_project /\ last.args.project_path = None

\* C8: an empty name, a scope other than "project" and "user", and project
\* scope with no project path are errors, and the file system is unchanged.
C8_SaveValidation ==
    C8_Rejected =>
        /\ ~last.res.ok
        /\ last.res.msg \in {"Command name cannot be empty",
                             "Invalid scope. Must be 'project' or 'user'",
                             "Project path required for project scope"}
        /\ fs = last.pre

\* A save with an empty name and otherwise valid arguments, on a file
\* system where the directory of the file does not exist yet.
C8_Witness ==
    /\ last.op = "save"
    /\ last.args.name = << >>
    /\ last.args.scope = S_user /\ IsSome(env.home)
    /\ IsSome(last.args.namespace)
    /\ UserRoot \notin last.pre.dirs
    /\ ~last.res.ok

(***************************************************************************)
(* C9.  Files that fail to load.                                           *)
(***************************************************************************)
\* The file paths of the records of a sequence.
FilePaths(commands) == {PathFrom(commands[i].file_path) : i \in 1..Len(commands)}

\* C9: a listing is never an error; it holds every built-in and, for each
\* root it scans and whose walk reads every directory, every loadable file,
\* whatever other files of that root fail to load.
C9_ListSkipsBadFiles ==
    last.op = "list" =>
        LET cs == last.res.commands
        IN  /\ last.res.ok
            /\ \A i \in 1..Builtins : \E j \in 1..Len(cs) : cs[j] = create_default_commands[i]
            /\ (IsSome(last.args.project_path) /\ WalkReads(last.pre, RootOf(S_project))) =>
                   Loadable(last.pre, RootOf(S_project)) \subseteq FilePaths(OfScope(cs, S_project))
            /\ (IsSome(env.home) /\ WalkReads(last.pre, UserRoot)) =>
                   Loadable(last.pre, UserRoot) \subseteq FilePaths(OfScope(cs, S_user))

\* A listing of a root that holds a file that fails to load beside a file
\* that loads.
C9_Witness ==
    /\ last.op = "list" /\ IsSome(last.args.project_path)
    /\ VisibleMd(last.pre, RootOf(S_project)) \ Loadable(last.pre, RootOf(S_project)) # {}
    /\ Loadable(last.pre, RootOf(S_project)) # {}
    /\ OfScope(last.res.commands, S_project) # << >>

(***************************************************************************)
(* C10.  Name, namespace and invocation string.                            *)
(***************************************************************************)
\* The records the last call loaded from files.
LoadedRecords ==
    IF last.op = "list" THEN SelectSeq(last.res.commands, LAMBDA c : c.scope # S_default)
    ELSE IF last.op = "save" /\ last.res.ok THEN <<last.res.cmd>>
    ELSE << >>

\* s1:...:sk for the directories s1, ..., sk.
RECURSIVE Colons(_)
Colons(segments) == IF Len(segments) = 1 THEN segments[1]
                    ELSE segments[1] \o <<":">> \o Colons(Tail(segments))

\* The record c is the one the path of its file, <root>/s1/.../sk/n.md,
\* calls for.
Derived(c) ==
    LET p    == PathFrom(c.file_path)
        root == RootOf(c.scope)
        rel  == SubSeq(p, Len(root) + 1, Len(p))
        k    == Len(rel) - 1
        file == rel[Len(rel)]
        n    == SubSeq(file, 1, Len(file) - 3)
    IN  /\ IsPrefix(root, p) /\ k >= 0
        /\ file = n \o <<".", "m", "d">>
        /\ c.name = n
        /\ k = 0 => c.namespace = None /\ c.full_command = <<"/">> \o n
        /\ k >= 1 => /\ c.namespace = Some(Colons(SubSeq(rel, 1, k)))
                     /\ c.full_command = <<"/">> \o Colons(SubSeq(rel, 1, k)) \o <<":">> \o n

\* The last call saved, with valid arguments, a file that is written
\* outside the commands root of its scope.
C10_SavedOutsideRoot ==
    /\ last.op = "save"
    /\ SaveValidation(last.args.scope, last.args.name, last.args.project_path, env.home) = ""
    /\ \E p \in DOMAIN fs.files :
           /\ ~IsPrefix(RootOf(last.args.scope), p)
           /\ (p \notin DOMAIN last.pre.files \/ last.pre.files[p] # fs.files[p])

ScannedRoots ==
    (IF IsSome(last.args.project_path) THEN {RootOf(S_project)} ELSE {})
    \cup (IF IsSome(env.home) THEN {UserRoot} ELSE {})

\* The elements of a sequence.
Range(s) == {s[i] : i \in 1..Len(s)}

\* C11: on a root whose directories can all be read, find_markdown_files
\* returns, once each, exactly the files with extension md whose name and
\* whose directories below the root do not start with "."; and no record of
\* a listing is backed by a hidden file or a file below a hidden directory.
C11_FinderSkipsHidden ==
    last.op = "list" =>
        /\ \A root \in ScannedRoots :
               WalkReads(last.pre, root) =>
                   LET found == find_markdown_files(last.pre, root, << >>)
                   IN  /\ found.ok
                       /\ Range(found.files) = VisibleMd(last.pre, root)
                       /\ Len(found.files) = Cardinality(VisibleMd(last.pre, root))
        /\ \A i \in (Builtins + 1)..Len(last.res.commands) :
               LET c == last.res.commands[i]
               IN  PathFrom(c.file_path) \in VisibleMd(last.pre, RootOf(c.scope))

\* A listing of a root that holds a hidden markdown file, a markdown file
\* below a hidden directory, a file that is no markdown file and a visible
\* markdown file.
C11_Witness ==
    /\ last.op = "list" /\ IsSome(env.home)
    /\ (UserRoot \o <<N_hidden_md>>) \in DOMAIN last.pre.files
    /\ (UserRoot \o <<N_hidden_dir, N_x_md>>) \in DOMAIN last.pre.files
    /\ (UserRoot \o <<N_txt>>) \in DOMAIN last.pre.files
    /\ OfScope(last.res.commands, S_user) # << >>

(***************************************************************************)
(* C12.  A commands directory that does not exist.                         *)
(***************************************************************************)
\* C12: a listing is Ok; with a project whose commands directory does not
\* exist it is the listing with no project path, and with no commands
\* directory in the home directory it is the built-in table followed by
\* project records only.
C12_MissingRoot ==
    last.op = "list" =>
        /\ last.res.ok
        /\ (IsSome(last.args.project_path) /\ ~Exists(last.pre, RootOf(S_project))) =>
               last.res.commands = slash_commands_list(last.pre, env.home, None)
        /\ (IsSome(env.home) /\ ~Exists(last.pre, UserRoot)) =>
               /\ SubSeq(last.res.commands, 1, Builtins) = create_default_commands
               /\ \A i \in (Builtins + 1)..Len(last.res.commands) :
                      last.res.commands[i].scope = S_project

\* A listing with a project that has no commands directory, which shows the
\* user commands.
C12_Witness ==
    /\ last.op = "list"
    /\ IsSome(last.args.project_path)
    /\ ~Exists(last.pre, RootOf(S_project))
    /\ OfScope(last.res.commands, S_user) # << >>

(***************************************************************************)
(* C13.  The header and the body of a file.                                *)
(***************************************************************************)
\* The text of the file that backs record c.
TextOf(c) == fs.files[PathFrom(c.file_path)].text

\* The number of the first line after the first that is "---", when the
\* first line is "---" and there is such a line; 0 otherwise.
CloseOf(lines) ==
    IF Len(lines) > 0 /\ lines[1] = DELIM /\ (\E i \in 2..Len(lines) : lines[i] = DELIM)
    THEN CHOOSE i \in 2..Len(lines) : lines[i] = DELIM /\ \A j \in 2..(i - 1) : lines[j] # DELIM
    ELSE 0

HeaderClose(t) == CloseOf(Lines(t))

\* The lines have delimiter lines, the second of them at close, and a block
\* between them that parses.
ParsesAt(lines, close) ==
    /\ close # 0
    /\ yaml_from_str(Join(SubSeq(lines, 2, close - 1), <<NL>>)).ok

\* The text has delimiter lines and a block between them that parses.
HeaderParses(t) == ParsesAt(Lines(t), HeaderClose(t))

\* The text after the first n lines of t, line terminators included.
RECURSIVE AfterLines(_, _)
AfterLines(t, n) == IF n = 0 THEN t
                    ELSE IF IndexOf(t, NL) = 0 THEN << >>
                    ELSE AfterLines(SubSeq(t, IndexOf(t, NL) + 1, Len(t)), n - 1)

\* C13: the content of a record loaded from a file is the text after the
\* first closing delimiter line when the header parses; otherwise it is the
\* whole text of the file, with no description and no tools.
C13_HeaderSplit ==
    \A i \in 1..Len(LoadedRecords) :
        LET c == LoadedRecords[i]
        IN  IF HeaderParses(TextOf(c))
            THEN c.content = AfterLines(TextOf(c), HeaderClose(TextOf(c)))
            ELSE c.content = TextOf(c) /\ c.description = None /\ c.allowed_tools = << >>

(***************************************************************************)
(* C14.  The flags of a record loaded from a file.                         *)
(***************************************************************************)
\* The lines of t after the header when the header parses, joined; the
\* whole of t otherwise.
BodyAt(t, lines, close) == IF ParsesAt(lines, close)
                           THEN Join(SubSeq(lines, close + 1, Len(lines)), <<NL>>)
                           ELSE t

BodyLines(t, lines) == BodyAt(t, lines, CloseOf(lines))

BodyOf(t) == BodyLines(t, Lines(t))

\* C14: the three flags of a record loaded from a file say whether the body
\* of the file holds the marker, whatever the header holds.
C14_FlagsFromBody ==
    \A i \in 1..Len(LoadedRecords) :
        LET c == LoadedRecords[i]
        IN  /\ c.has_bash_commands = Contains(BodyOf(TextOf(c)), S_bang_tick)
            /\ c.has_file_references = Contains(BodyOf(TextOf(c)), <<"@">>)
            /\ c.accepts_arguments = Contains(BodyOf(TextOf(c)), S_ARGUMENTS)

\* A listing shows a record whose header holds the three markers and whose
\* flags are all off, and a record whose flags are on.
C14_Witness ==
    /\ last.op = "list"
    /\ \E i \in 1..Len(LoadedRecords) :
           LET c == LoadedRecords[i]
           IN  /\ HeaderParses(TextOf(c))
               /\ Contains(TextOf(c), <<"@">>) /\ Contains(TextOf(c), S_ARGUMENTS)
               /\ Contains(TextOf(c), S_bang_tick)
               /\ ~c.has_bash_commands /\ ~c.has_file_references /\ ~c.accepts_arguments
    /\ \E i \in 1..Len(LoadedRecords) :
           LET c == LoadedRecords[i]
           IN  ~HeaderParses(TextOf(c)) /\ c.has_file_references

(***************************************************************************)
(* C15.  The text that slash_command_save writes.                          *)
(***************************************************************************)
\* The file that the last call, a save, writes.
SavedPath ==
    PathJoin(SaveDir(SaveBaseDir(last.args.scope, last.args.project_path, env.home), last.args.namespace),
             last.args.name \o <<".">> \o S_md)

\* The last call is a save that wrote its file.
SaveWrote ==
    /\ last.op = "save"
    /\ SaveValidation(last.args.scope, last.args.name, last.args.project_path, env.home) = ""
    /\ last.res.msg \notin {"Failed to create directories", "Failed to write command file"}

\* The description or the tool list of the last call is non-empty.
HasMetadata ==
    \/ IsSome(last.args.description) /\ Unwrap(last.args.description) # << >>
    \/ last.args.allowed_tools # << >>

\* C15: the file that a save writes is exactly the body when the description
\* is absent or empty and the tool list is empty; otherwise it is the opening
\* delimiter line, the description line if there is a description, the tools
\* block if there are tools, the closing delimiter line, a blank line and
\* the body.
C15_SaveHeader ==
    SaveWrote =>
        /\ SavedPath \in DOMAIN fs.files
        /\ fs.files[SavedPath].text =
              IF ~HasMetadata THEN last.args.content
              ELSE DELIM \o <<NL>>
                   \o (IF IsSome(last.args.description)
                       THEN S_description_key \o <<":", SPACE>> \o Unwrap(last.args.description) \o <<NL>>
                       ELSE << >>)
                   \o (IF last.args.allowed_tools # << >>
                       THEN S_allowed_tools_key \o <<":", NL>> \o ToolLines(last.args.allowed_tools)
                       ELSE << >>)
                   \o DELIM \o <<NL, NL>> \o last.args.content

(***************************************************************************)
(* C16.  The flags of the records of a listing.                            *)
(***************************************************************************)
\* C16: in every record of a listing, built-in or loaded from a file, each
\* flag says whether the content field of the record holds its marker.
C16_FlagsOfContent ==
    last.op = "list" =>
        \A i \in 1..Len(last.res.commands) :
            LET c == last.res.commands[i]
            IN  /\ c.has_bash_commands = Contains(c.content, S_bang_tick)
                /\ c.has_file_references = Contains(c.content, <<"@">>)
                /\ c.accepts_arguments = Contains(c.content, S_ARGUMENTS)

(***************************************************************************)
(* C18.  The identifiers of a listing.                                     *)
(***************************************************************************)
\* C18: the identifier of a record loaded from a file is its scope, "-" and
\* its path with "-" for every "/", and two records of one listing that come
\* from different files, or from a file and the built-in table, have
\* different identifiers.
C18_UniqueIds ==
    last.op = "list" =>
        LET cs == last.res.commands
        IN  /\ \A i \in (Builtins + 1)..Len(cs) :
                   cs[i].id = cs[i].scope \o <<"-">> \o ReplaceChar(cs[i].file_path, "/", "-")
            /\ \A i \in (Builtins + 1)..Len(cs) : \A j \in 1..Len(cs) :
                   (j <= Builtins \/ cs[j].file_path # cs[i].file_path) => cs[j].id # cs[i].id

(***************************************************************************)
(* C19.  What slash_command_delete changes.                                *)
(***************************************************************************)
\* The file of the first record of the listing that the last call, a
\* delete, made and whose identifier is the one passed.
FirstMatch ==
    PathFrom(Unwrap(FindById(slash_commands_list(last.pre, env.home, last.args.project_path),
                             last.args.command_id)).file_path)

\* Between the file system before the call and the one after it, the file p
\* is gone, every other file is as it was, no directory appeared, and each
\* directory that is gone is an ancestor of p that held nothing but the way
\* to p, as did every ancestor of p below it.
DeleteFrame(p) ==
    /\ p \in DOMAIN last.pre.files
    /\ DOMAIN fs.files = DOMAIN last.pre.files \ {p}
    /\ \A q \in DOMAIN fs.files : fs.files[q] = last.pre.files[q]
    /\ fs.dirs \subseteq last.pre.dirs
    /\ \A d \in last.pre.dirs \ fs.dirs :
           /\ IsPrefix(d, p)
           /\ \A q \in DOMAIN last.pre.files \cup last.pre.dirs : IsPrefix(d, q) => IsPrefix(q, p)
           /\ \A e \in last.pre.dirs : (IsPrefix(d, e) /\ IsPrefix(e, p)) => e \notin fs.dirs

\* C19: a successful delete removes the file of the first listed record with
\* the identifier and no other file, and removes only empty directories, from
\* the parent of the file upward to the first ancestor that is not empty; a
\* delete that fails, as when the file cannot be removed, removes nothing.
C19_DeleteFrame ==
    last.op = "delete" => IF last.res.ok THEN DeleteFrame(FirstMatch) ELSE fs = last.pre

\* A delete removed a file and its directory and stopped at an ancestor
\* that still holds a file.
C19_Witness ==
    /\ last.op = "delete" /\ last.res.ok
    /\ Unwrap(Parent(FirstMatch)) \notin fs.dirs
    /\ \E q \in DOMAIN fs.files : IsPrefix(Unwrap(Parent(Unwrap(Parent(FirstMatch)))), q)
    /\ IsPrefix(RootOf(last.res.cmd.scope), Unwrap(Parent(Unwrap(Parent(FirstMatch)))))

(***************************************************************************)
(* C20.  What slash_command_save changes.                                  *)
(***************************************************************************)
\* <base>/<s1>/.../<sk>/<name>.md for the namespace s1:...:sk of the last
\* call, a save.
NamedPath ==
    PathFrom(PathString(SaveBaseDir(last.args.scope, last.args.project_path, env.home))
             \o (IF IsSome(last.args.namespace)
                 THEN <<SEP>> \o ReplaceChar(Unwrap(last.args.namespace), ":", SEP)
                 ELSE << >>)
             \o <<SEP>> \o last.args.name \o <<".">> \o S_md)

\* The file system that a second save with the arguments of the last call
\* leaves.
SavedAgain ==
    slash_command_save(fs, env.home, last.args.scope, last.args.name, last.args.namespace,
                       last.args.content, last.args.description, last.args.allowed_tools,
                       last.args.project_path).fs

\* C20: after a successful save the file <base>/<namespace directories>/
\* <name>.md holds exactly the serialized text, whatever it held before; the
\* directories on the way to it exist; every other file is as it was and no
\* file but this one appeared; a second save with the same arguments leaves
\* the file system as it is.
C20_SaveFrame ==
    (last.op = "save" /\ last.res.ok) =>
        /\ NamedPath \in DOMAIN fs.files
        /\ fs.files[NamedPath] =
               [utf8 |-> TRUE,
                text |-> FullContent(last.args.content, last.args.description, last.args.allowed_tools)]
        /\ \A k \in 1..(Len(NamedPath) - 1) : SubSeq(NamedPath, 1, k) \in fs.dirs
        /\ DOMAIN fs.files = DOMAIN last.pre.files \cup {NamedPath}
        /\ \A q \in DOMAIN last.pre.files : q # NamedPath => fs.files[q] = last.pre.files[q]
        /\ last.pre.dirs \subseteq fs.dirs
        /\ SavedAgain = fs

\* A save replaced a file that held another text, beside another file.
C20_Witness ==
    /\ last.op = "save" /\ last.res.ok
    /\ NamedPath \in DOMAIN last.pre.files
    /\ last.pre.files[NamedPath].text # fs.files[NamedPath].text
    /\ \E q \in DOMAIN last.pre.files : q # NamedPath

(***************************************************************************)
(* C17.  A save and a delete of the same path at the same time.            *)
(***************************************************************************)
\* Both calls have returned.
RaceOver == race.spc = "done" /\ race.dpc = "done"

\* The results of the two calls and the file system they leave.
RaceOutcome == [save |-> race.sres, delete |-> race.dres, fs |-> fs]

\* The handlers of the two calls, run on a file system f.
SaveOn(f) ==
    slash_command_save(f, env.home, race.save.scope, race.save.name, race.save.namespace,
                       race.save.content, race.save.description, race.save.allowed_tools,
                       race.save.project_path)

DeleteOn(f) == slash_command_delete(f, env.home, race.command_id, None)

\* The outcome of a first call with result first and a second with result
\* second.
SaveThen(first, second) ==
    [save |-> [ok |-> first.ok, msg |-> first.msg], delete |-> [ok |-> second.ok, msg |-> second.msg],
     fs |-> second.fs]

DeleteThen(first, second) ==
    [save |-> [ok |-> second.ok, msg |-> second.msg], delete |-> [ok |-> first.ok, msg |-> first.msg],
     fs |-> second.fs]

SaveThenDelete(saved) == SaveThen(saved, DeleteOn(saved.fs))

DeleteThenSave(deleted) == DeleteThen(deleted, SaveOn(deleted.fs))

\* The outcomes of the two sequential orders from the file system the calls
\* started on.
OutcomeSaveDelete == SaveThenDelete(SaveOn(race.start))

OutcomeDeleteSave == DeleteThenSave(DeleteOn(race.start))

\* No step of the one call ran between two steps of the other.
SaveRanFirst ==
    \A i, j \in 1..Len(race.trace) : (race.trace[i] = "delete" /\ race.trace[j] = "save") => j < i

DeleteRanFirst ==
    \A i, j \in 1..Len(race.trace) : (race.trace[i] = "save" /\ race.trace[j] = "delete") => j < i

\* C17: the steps of a save and of a delete of the same path interleave
\* freely; when they do not, the outcome (both results and the file system)
\* is that of the sequential order of the two calls, so an outcome that is
\* the outcome of neither order comes from an interleaving.
C17_SaveDeleteRace ==
    RaceOver =>
        /\ SaveRanFirst => RaceOutcome = OutcomeSaveDelete
        /\ DeleteRanFirst => RaceOutcome = OutcomeDeleteSave
        /\ RaceOutcome \notin {OutcomeSaveDelete, OutcomeDeleteSave} => ~SaveRanFirst /\ ~DeleteRanFirst

\* Both calls have returned, the save of valid arguments failed to write or
\* to reload its file, and the outcome is that of neither sequential order.
C17_Witness ==
    /\ RaceOver
    /\ RaceOutcome # OutcomeSaveDelete
    /\ RaceOutcome # OutcomeDeleteSave
    /\ ~race.sres.ok
    /\ race.sres.msg \in {"Failed to write command file", "Failed to load saved command"}
    /\ OutcomeSaveDelete.save.ok /\ OutcomeDeleteSave.save.ok


(***************************************************************************)
(* C21.  A saved command is listed and can be deleted.                     *)
(***************************************************************************)
\* The listing with the project path of the last call, on the file system
\* as it is now.
ListedNow == slash_commands_list(fs, env.home, last.args.project_path)

\* The delete of the record that the last call, a save, returned, on the
\* file system as it is now.
DeleteSaved == slash_command_delete(fs, env.home, last.res.cmd.id, last.args.project_path)

\* C21: after a successful save, the listing with the same project path
\* holds a record with the identifier of the record that the save returned,
\* and the delete of that identifier succeeds and removes the saved file.
C21_SavedIsListed ==
    (last.op = "save" /\ last.res.ok) =>
        /\ last.res.cmd.id \in IdsOf(ListedNow)
        /\ DeleteSaved.ok
        /\ PathFrom(last.res.cmd.file_path) \notin DOMAIN DeleteSaved.fs.files

(***************************************************************************)
(* C22.  A deleted command is gone.                                        *)
(***************************************************************************)
\* The delete of the last call, a delete, once more on the file system as
\* it is now.
DeleteAgain == slash_command_delete(fs, env.home, last.args.command_id, last.args.project_path)

\* C22: after a successful delete, the listing with the same project path
\* holds no record with the identifier, and a second delete of it fails
\* with the not-found error.
C22_DeletedIsGone ==
    (last.op = "delete" /\ last.res.ok) =>
        /\ last.args.command_id \notin IdsOf(ListedNow)
        /\ ~DeleteAgain.ok
        /\ DeleteAgain.msg = "Command not found"

(***************************************************************************)
(* C23.  The built-in commands.                                            *)
(***************************************************************************)
\* The identifiers of the built-in table.
BuiltinIds == IdsOf(create_default_commands)

\* A listing starts with the whole built-in table, each record with scope
\* "default", no namespace and an empty source path, and no later record
\* bears a built-in identifier.
BuiltinsFirst(listing) ==
    /\ Len(listing) >= Builtins
    /\ \A i \in 1..Builtins :
           /\ listing[i] = create_default_commands[i]
           /\ listing[i].scope = S_default
           /\ listing[i].namespace = None
           /\ listing[i].file_path = << >>
    /\ \A i \in (Builtins + 1)..Len(listing) : listing[i].id \notin BuiltinIds

C24_SavedAsNamed ==
    (last.op = "save" /\ last.res.ok) =>
        /\ last.res.cmd.scope = last.args.scope
        /\ last.res.cmd.name = last.args.name
        /\ last.res.cmd.namespace = last.args.namespace
        /\ last.res.cmd.full_command =
               IF IsSome(last.args.namespace)
               THEN <<"/">> \o Unwrap(last.args.namespace) \o <<":">> \o last.args.name
               ELSE <<"/">> \o last.args.name

(***************************************************************************)
(* C25.  No state is kept between calls.                                   *)
(***************************************************************************)
\* The records of a scope in the listing hold exactly the loadable files
\* that the root of the scope holds now, when the walk reads the root.
ShowsRoot(listing, scope) ==
    WalkReads(fs, RootOf(scope)) => FilePaths(OfScope(listing, scope)) = Loadable(fs, RootOf(scope))

\* A listing shows the file system as it is: every file record is backed by
\* a file that exists now and has the body of the present text of that
\* file, and each scanned root is shown with the loadable files it holds.
ShowsNow(listing) ==
    /\ \A i \in (Builtins + 1)..Len(listing) :
           /\ PathFrom(listing[i].file_path) \in DOMAIN fs.files
           /\ listing[i].content = BodyOf(TextOf(listing[i]))
    /\ IsSome(last.args.project_path) => ShowsRoot(listing, S_project)
    /\ IsSome(env.home) => ShowsRoot(listing, S_user)

ShowsNewBody(listing) ==
    \E i \in 1..Len(listing) :
        /\ PathFrom(listing[i].file_path) = NamedPath
        /\ listing[i].content = last.args.content
        /\ listing[i].content # BodyOf(last.pre.files[NamedPath].text)

====
